---------------------------- MODULE Spec2Model ----------------------------
(***************************************************************************)
(* Model of the six-trading engine (Rust): the execution worker actors,    *)
(* the live order path of the execution manager, the market-event channel  *)
(* and coordinator loop, the strategy handlers and the state machine.      *)
(*                                                                         *)
(* Each part of the program has its own group of variables and its own     *)
(* specification; a specification leaves the other groups at their initial *)
(* values.                                                                 *)
(*                                                                         *)
(*   SpecWorker   execution/binance_worker.rs, execution/futures_worker.rs *)
(*   SpecExec     execution/mod.rs (live Buy/Sell/Cancel path)             *)
(*   SpecChannel  main.rs loop fed through the bounded channel             *)
(*   SpecCoord    main.rs loop with the dashboard handlers of web/mod.rs   *)
(*   SpecStrat    strategy handlers driven one event at a time             *)
(*   SpecRisk     strategy/risk.rs                                         *)
(*   SpecFilter   market_data/filter.rs                                    *)
(*   SpecMachine  state_machine/mod.rs                                     *)
(*   SpecSim      execution/mod.rs (simulation Buy/Sell/Cancel path)       *)
(*   SpecDl       market_data/downloader.rs                                *)
(*   SpecDb       database/repository.rs (save_aggr_trades_bulk)           *)
(*   SpecBt       web/mod.rs (execute_isolated_backtest)                   *)
(*   SpecFl       market_data/downloader.rs with database/repository.rs    *)
(*   SpecLk       the shared RwLock and the simulation ledger's mutexes    *)
(*   SpecOrd      main.rs (spawned executions of the selected signals)     *)
(*   SpecCk       market_data/downloader.rs (chunk loop on machine words)  *)
(*                                                                         *)
(* Floating point quantities are modelled by exact scaled integers; the    *)
(* scale is stated where each one is introduced.                           *)
(***************************************************************************)
EXTENDS Integers, Sequences, FiniteSets, TLC

VARIABLES
    \* ---- execution worker (SpecWorker) ----
    wkind,      \* "spot" (BinanceWorker) or "futures" (FuturesWorker)
    cmdq,       \* the std::sync::mpsc command queue, a sequence of [id, cmd]
    sendersOpen,\* TRUE while a command_tx send handle exists
    wpc,        \* worker thread: "recv" | "call" | "exited"
    wcur,       \* the command whose exchange call is in flight
    wexit,      \* why the loop was left: "none" | "shutdown" | "closed"
    oneshot,    \* id -> "unused" | "empty" | a response variant | "closed"
    rxDropped,  \* id -> TRUE once the caller dropped its one-shot receiver
    cstate,     \* id -> "none" | "waiting" | "cancelled" | "returned"
    cresult,    \* id -> "none" | "Ok" | "Err" | "ErrUnexpected" | "ErrChannel" | "ErrSend"
    ccmd,       \* id -> the command kind the wrapper was called for
    apiOk,      \* id -> "none" | "ok" | "fail": outcome of the exchange call
    nextId,     \* next one-shot pair to allocate
    enqLog,     \* history: ids in the order they were enqueued (0 = Shutdown)
    deqLog,     \* history: ids in the order the worker dequeued them
    callLog,    \* history: ids in the order the exchange call was started
    replyLog,   \* history: [id, resp, delivered] in the order replies were sent
    \* ---- ExecutionManager::execute, live mode (SpecExec) ----
    exPc,       \* "idle" | "balances" | "order" | "cancel" | "done"
    exSignal,   \* the Signal being executed: [side, price, qty]
    exBal,      \* balances returned by get_account: [usdt, btc]
    exSent,     \* commands handed to the worker, in order: [cmd, qty, hint]
    exResult,   \* "none" | "Ok0" (Ok(0.0)) | "Err"
    \* ---- shared state machine and the strategy object ----
    sm,         \* AppState.state_machine
    now,        \* wall clock, whole seconds since the process started
    strategy,   \* the strategy object that handles the events
    opportunities, \* what the last handler invocation returned
    lastCall,   \* history: the last handler invocation (see CallRecord)
    emitLog,    \* history: event time of the last emitting invocation and the
                \* gap between the last two (see EmitRecord)
    \* ---- a strategy driven on its own (SpecStrat) ----
    hHost,      \* "live" (fresh AppState) | "backtest" (forced to Trading) | "idle"
    hCount,     \* events fed so far
    hTime,      \* event time of the last event fed
    \* ---- ingest source, channel, coordinator loop (SpecChannel, SpecCoord) ----
    srcKind,    \* "websocket" | "backtest"
    srcBudget,  \* number of events the source produces in this run
    srcNext,    \* number of the next event the source sends
    prodPc,     \* producer: "ready" | "blocked" (parked in a send)
    chan,       \* the market-event channel: event numbers, oldest first
    cpc,        \* loop: "recv" | "swap" | "dispatch" | "handler" | "snapshot" | "gate"
    cev,        \* the event the loop iteration is about
    data_filter,\* the loop's DataFilter
    event_count,\* the loop's count of accepted events
    current_name, \* the strategy name the swap check read
    is_trading_read, \* the is_trading value the gate read
    now_ts,     \* the clock value the snapshot block read (0 outside it)
    inHandler,  \* strategy handler invocations in progress
    strategy_name, \* AppState.strategy_name
    is_trading, \* AppState.is_trading
    total_trades, \* AppState.total_trades
    current_opportunities, \* AppState.current_opportunities
    data_quality_score, \* AppState.data_quality_score as <<good, total>>
    last_portfolio_snapshot_ts, \* AppState.last_portfolio_snapshot_ts
    portfolio_history, \* timestamps of AppState.portfolio_history
    realized_updates, \* number of additions to AppState.realized_pnl
    pendingExec,\* spawned executions that have not finished
    deliveredLog, \* history: events the loop received, in order
    rejectedLog,  \* history: events the data filter rejected
    handedLog,    \* history: events for which a strategy handler was called
    spawnLog,     \* history: [n, signal, is_trading] for every spawned execution
    swapsSinceChange, \* history: swaps since strategy_name last changed
    \* ---- the risk manager called on its own
    rkPc,       \* "idle" | "input" | "analyzed" | "selected"
    rkInput,    \* the opportunities given to analyze_opportunities
    rkProcessed,\* the opportunities it returned
    rkReport,   \* the RiskReport it returned
    rkArg,      \* the opportunities given to select_best_trade
    rkBest,     \* what it returned: a position in rkArg, 0 for None
    \* ---- a DataFilter called on its own
    flt,        \* the DataFilter
    fltBefore,  \* history: the DataFilter before the last should_process
    fltEvent,   \* history: the event of the last should_process
    fltOk,      \* history: what the last should_process returned
    fltCalls,   \* number of should_process calls so far
    fltTrades,  \* history: how many of them were given a Trade event
    \* ---- a StateMachine called on its own (its clock is now)
    msm,        \* the StateMachine
    mLast,      \* history: the last transition_to call (see MachineCall)
    mCalls,     \* number of transition_to calls so far
    mPerformed, \* history: how often current_state went from i to j
    mQuery,     \* history: the last is_stable call since the last
                \* transition_to call, and its answer
    \* ---- ExecutionManager in simulation mode
    sim_balances,  \* [USDT, BTC]
    sim_positions, \* sequence of PositionInfo records
    simLog,     \* history: the signals executed so far, in order
    simBefore,  \* history: balances and positions before the last execute
    simPnl,     \* history: the realized PnL the last execute returned
    simPnlSum,  \* history: the sum of the realized PnL returned so far
    \* ---- HistoricalDownloader
    dlPc,       \* "idle" | "ensure" | "call" | "fetching" | "returned"
    dlStore,    \* MIN(event_time), MAX(event_time) of the stored trades
    dlReq,      \* the range asked for: [start, end]
    dlPlan,     \* fetch_and_save_range_public calls still to make
    dlCalls,    \* history: the ranges of the calls made so far
    dlChunks,   \* the chunks of the call in progress
    dlTask,     \* chunk number -> its future (see DlQueued)
    dlPermits,  \* free permits of the semaphore
    \* ---- the aggr_trades table behind save_aggr_trades_bulk
    dbRows,     \* the stored rows, by their key (market_type, trade_id)
    dbLast,     \* history: the last call, or NoSave
    dbPrev,     \* history: the call before it, or NoSave
    dbCalls,    \* history: the number of calls
    \* ---- execute_isolated_backtest
    btReq,      \* the request: trades per symbol, fast_mode
    btRun,      \* <<symbol, strategy>> -> the run's task and everything it owns
    btLive,     \* the live pipeline's shared state, as the handler was given it
    \* ---- the downloader filling the aggr_trades table
    flPc,       \* "ensure" | "call" | "fetching" | "returned" | "idle"
    flStore,    \* the stored rows, by their key (market_type, trade_id)
    flPlan,     \* fetch_and_save_range_public calls still to make
    flTasks,    \* chunk number -> [pc, range, batch]
    flReturned, \* history: the trade ids the exchange has returned
    \* ---- the shared RwLock and the two mutexes of the simulation ledger
    lkPc,       \* task -> the number of its next lock operation
    lkHeld,     \* lock -> the set of [task, mode] holding it
    lkQueue,    \* lock -> the tasks waiting for it, first come first
    \* ---- the spawned executions of the selected signals
    ordMode,    \* "live" or "paper"
    ordSelected, \* the signals selected so far, in the order of their events
    ordPc,      \* per selection: where its spawned task is
    ordLedger,  \* paper: the simulation ledger
    ordQueue,   \* live: the worker's command queue
    ordApplied, \* history: the selections in the order in which their order
                \* was applied to the ledger or enqueued to the worker
    \* ---- the chunk loop of fetch_and_save_range_public on machine words
    ckBuild,    \* "debug" (overflow checks on) or "release" (wrapping)
    ckStart,    \* start_ts
    ckEnd,      \* end_ts
    ckChunkStart, \* chunk_start
    ckChunks,   \* chunks
    ckPc        \* "loop", "done" or "panic"

workerVars == <<wkind, cmdq, sendersOpen, wpc, wcur, wexit, oneshot, rxDropped,
                cstate, cresult, ccmd, apiOk, nextId, enqLog, deqLog, callLog,
                replyLog>>

execVars == <<exPc, exSignal, exBal, exSent, exResult>>

appVars == <<sm, now, strategy, opportunities, lastCall, emitLog>>

harnessVars == <<hHost, hCount, hTime>>

srcVars == <<srcKind, srcBudget, srcNext, prodPc>>

loopVars == <<cpc, cev, data_filter, event_count, current_name, is_trading_read,
              now_ts, inHandler>>

sharedVars == <<strategy_name, is_trading, total_trades, current_opportunities,
                data_quality_score, last_portfolio_snapshot_ts, portfolio_history,
                realized_updates, pendingExec>>

logVars == <<deliveredLog, rejectedLog, handedLog, spawnLog, swapsSinceChange>>

coordVars == <<srcVars, chan, loopVars, sharedVars, logVars>>

riskVars == <<rkPc, rkInput, rkProcessed, rkReport, rkArg, rkBest>>

filterVars == <<flt, fltBefore, fltEvent, fltOk, fltCalls, fltTrades>>

machineVars == <<msm, mLast, mCalls, mPerformed, mQuery>>

unitVars == <<riskVars, filterVars, machineVars>>

progVars == <<workerVars, execVars, appVars, harnessVars, coordVars>>

simVars == <<sim_balances, sim_positions, simLog, simBefore, simPnl, simPnlSum>>

dlVars == <<dlPc, dlStore, dlReq, dlPlan, dlCalls, dlChunks, dlTask, dlPermits>>

dbVars == <<dbRows, dbLast, dbPrev, dbCalls>>

btVars == <<btReq, btRun, btLive>>

flVars == <<flPc, flStore, flPlan, flTasks, flReturned>>

lkVars == <<lkPc, lkHeld, lkQueue>>

ordVars == <<ordMode, ordSelected, ordPc, ordLedger, ordQueue, ordApplied>>

ckVars == <<ckBuild, ckStart, ckEnd, ckChunkStart, ckChunks, ckPc>>

auxVars == <<simVars, dlVars, dbVars, btVars, flVars, lkVars, ordVars, ckVars>>

vars == <<progVars, unitVars, auxVars>>

\* what the actions of one part leave alone
notWorker == <<execVars, appVars, harnessVars, coordVars, unitVars, auxVars>>
notExec == <<workerVars, appVars, harnessVars, coordVars, unitVars, auxVars>>
notApp == <<workerVars, execVars, coordVars, unitVars, auxVars>>
notCoord == <<workerVars, execVars, unitVars, auxVars>>
notRisk == <<progVars, filterVars, machineVars, auxVars>>
notFilter == <<progVars, riskVars, machineVars, auxVars>>
notMachine == <<progVars, riskVars, filterVars, auxVars>>
notSim == <<progVars, unitVars, dlVars, dbVars, btVars, flVars, lkVars, ordVars, ckVars>>
notDl == <<progVars, unitVars, simVars, dbVars, btVars, flVars, lkVars, ordVars, ckVars>>
notDb == <<progVars, unitVars, simVars, dlVars, btVars, flVars, lkVars, ordVars, ckVars>>
notBt == <<progVars, unitVars, simVars, dlVars, dbVars, flVars, lkVars, ordVars, ckVars>>
notFl == <<progVars, unitVars, simVars, dlVars, dbVars, btVars, lkVars, ordVars, ckVars>>
notLk == <<progVars, unitVars, simVars, dlVars, dbVars, btVars, flVars, ordVars, ckVars>>
notOrd == <<progVars, unitVars, simVars, dlVars, dbVars, btVars, flVars, lkVars, ckVars>>
notCk == <<progVars, unitVars, simVars, dlVars, dbVars, btVars, flVars, lkVars, ordVars>>

-----------------------------------------------------------------------------
(* Bounds of the model *)

MaxCmds == 2

-----------------------------------------------------------------------------
(* Small helpers *)

Ids == 1..MaxCmds

SeqToSet(s) == {s[i] : i \in 1..Len(s)}

RECURSIVE FilterSeq(_, _)
FilterSeq(s, keep) ==
    IF s = <<>> THEN <<>>
    ELSE IF Head(s) \in keep THEN <<Head(s)>> \o FilterSeq(Tail(s), keep)
         ELSE FilterSeq(Tail(s), keep)

IsPrefix(s, t) == Len(s) <= Len(t) /\ s = SubSeq(t, 1, Len(s))

Abs(x) == IF x < 0 THEN -x ELSE x

-----------------------------------------------------------------------------
(* Execution workers *)

\* BinanceCommand / FuturesCommand variants that carry a reply handle
SpotCommands == {"MarketBuy", "MarketSell", "CancelOrder", "GetAccount",
                 "GetTradeHistory"}

FuturesCommands == {"MarketBuy", "MarketSell", "SetLeverage", "SetMarginType",
                    "GetAccount", "GetPositions"}

CommandsOf(k) == IF k = "spot" THEN SpotCommands ELSE FuturesCommands

\* (mutant) the cancel handler reports Cancelled whatever the exchange said
SpotResponseCancelAlwaysOk(cmd, ok) ==
    CASE cmd \in {"MarketBuy", "MarketSell"} ->
            IF ok THEN "OrderSuccess" ELSE "OrderFailed"
      [] cmd = "CancelOrder"     -> "Cancelled"
      [] cmd = "GetAccount"      -> IF ok THEN "AccountInfo" ELSE "Failed"
      [] cmd = "GetTradeHistory" -> IF ok THEN "TradeHistory" ELSE "Failed"

\* (mutant) every handler reports a failure with the general Failed variant
SpotResponseFailedForOrders(cmd, ok) ==
    CASE cmd \in {"MarketBuy", "MarketSell"} ->
            IF ok THEN "OrderSuccess" ELSE "Failed"
      [] cmd = "CancelOrder"     -> IF ok THEN "Cancelled" ELSE "Failed"
      [] cmd = "GetAccount"      -> IF ok THEN "AccountInfo" ELSE "Failed"
      [] cmd = "GetTradeHistory" -> IF ok THEN "TradeHistory" ELSE "Failed"

\* The response variant the worker builds from the result of the blocking call.
SpotResponse(cmd, ok) ==
    CASE cmd \in {"MarketBuy", "MarketSell"} ->
            IF ok THEN "OrderSuccess" ELSE "OrderFailed"
      [] cmd = "CancelOrder"     -> IF ok THEN "Cancelled" ELSE "Failed"
      [] cmd = "GetAccount"      -> IF ok THEN "AccountInfo" ELSE "Failed"
      [] cmd = "GetTradeHistory" -> IF ok THEN "TradeHistory" ELSE "Failed"

FuturesResponse(cmd, ok) ==
    CASE cmd \in {"MarketBuy", "MarketSell"} ->
            IF ok THEN "OrderSuccess" ELSE "OrderFailed"
      [] cmd = "SetLeverage"   -> IF ok THEN "LeverageSet" ELSE "Failed"
      \* both arms of the match build MarginTypeSet
      [] cmd = "SetMarginType" -> "MarginTypeSet"
      [] cmd = "GetAccount"    -> IF ok THEN "AccountInfo" ELSE "Failed"
      [] cmd = "GetPositions"  -> IF ok THEN "Positions" ELSE "Failed"

WorkerResponse(k, cmd, ok) ==
    IF k = "spot" THEN SpotResponse(cmd, ok) ELSE FuturesResponse(cmd, ok)

\* The variant each async wrapper maps to Ok(..), and the one it maps to Err(error).
SpotOkVariant(cmd) ==
    CASE cmd \in {"MarketBuy", "MarketSell"} -> "OrderSuccess"
      [] cmd = "CancelOrder"     -> "Cancelled"
      [] cmd = "GetAccount"      -> "AccountInfo"
      [] cmd = "GetTradeHistory" -> "TradeHistory"

FuturesOkVariant(cmd) ==
    CASE cmd \in {"MarketBuy", "MarketSell"} -> "OrderSuccess"
      [] cmd = "SetLeverage"   -> "LeverageSet"
      [] cmd = "SetMarginType" -> "MarginTypeSet"
      [] cmd = "GetAccount"    -> "AccountInfo"
      [] cmd = "GetPositions"  -> "Positions"

ErrVariant(cmd) ==
    IF cmd \in {"MarketBuy", "MarketSell"} THEN "OrderFailed" ELSE "Failed"

\* match rx.await { Ok(expected) => Ok, Ok(failure) => Err(error),
\*                  Ok(_) => Err("Unexpected response"), Err(e) => Err("Response channel error") }
WrapperResult(k, cmd, slot) ==
    LET okv == IF k = "spot" THEN SpotOkVariant(cmd) ELSE FuturesOkVariant(cmd)
    IN  CASE slot = "closed"        -> "ErrChannel"
          [] slot = okv             -> "Ok"
          [] slot = ErrVariant(cmd) -> "Err"
          [] OTHER                  -> "ErrUnexpected"

WorkerInit ==
    /\ wkind \in {"spot", "futures"}
    /\ cmdq = <<>>
    /\ sendersOpen = TRUE
    /\ wpc = "recv"
    /\ wcur = [id |-> 0, cmd |-> "none"]
    /\ wexit = "none"
    /\ oneshot = [i \in Ids |-> "unused"]
    /\ rxDropped = [i \in Ids |-> FALSE]
    /\ cstate = [i \in Ids |-> "none"]
    /\ cresult = [i \in Ids |-> "none"]
    /\ ccmd = [i \in Ids |-> "none"]
    /\ apiOk = [i \in Ids |-> "none"]
    /\ nextId = 1
    /\ enqLog = <<>>
    /\ deqLog = <<>>
    /\ callLog = <<>>
    /\ replyLog = <<>>

\* An async wrapper (market_buy, cancel_order, ...): allocate the one-shot pair,
\* send the command; a send to a worker that has exited fails at once.
WrapperCall(cmd) ==
    /\ nextId <= MaxCmds
    /\ sendersOpen
    /\ nextId' = nextId + 1
    /\ ccmd' = [ccmd EXCEPT ![nextId] = cmd]
    /\ IF wpc = "exited"
       THEN /\ cstate' = [cstate EXCEPT ![nextId] = "returned"]
            /\ cresult' = [cresult EXCEPT ![nextId] = "ErrSend"]
            /\ oneshot' = [oneshot EXCEPT ![nextId] = "closed"]
            /\ UNCHANGED <<cmdq, enqLog>>
       ELSE /\ cstate' = [cstate EXCEPT ![nextId] = "waiting"]
            /\ oneshot' = [oneshot EXCEPT ![nextId] = "empty"]
            /\ cmdq' = Append(cmdq, [id |-> nextId, cmd |-> cmd])
            /\ enqLog' = Append(enqLog, nextId)
            /\ UNCHANGED cresult
    /\ UNCHANGED <<wkind, sendersOpen, wpc, wcur, wexit, rxDropped, apiOk,
                   deqLog, callLog, replyLog>>
    /\ UNCHANGED notWorker

\* rx.await resolves: with the response the worker sent, or with RecvError once
\* the reply handle was dropped unsent.
WrapperAwait(i) ==
    /\ cstate[i] = "waiting"
    /\ oneshot[i] \notin {"unused", "empty"}
    /\ cstate' = [cstate EXCEPT ![i] = "returned"]
    /\ cresult' = [cresult EXCEPT ![i] = WrapperResult(wkind, ccmd[i], oneshot[i])]
    /\ UNCHANGED <<wkind, cmdq, sendersOpen, wpc, wcur, wexit, oneshot, rxDropped,
                   ccmd, apiOk, nextId, enqLog, deqLog, callLog, replyLog>>
    /\ UNCHANGED notWorker

\* The caller's future is dropped while it awaits the reply (a timeout raced
\* against the receive, a cancelled task): the one-shot receiver is dropped.
CallerCancel(i) ==
    /\ cstate[i] = "waiting"
    /\ cstate' = [cstate EXCEPT ![i] = "cancelled"]
    /\ rxDropped' = [rxDropped EXCEPT ![i] = TRUE]
    /\ UNCHANGED <<wkind, cmdq, sendersOpen, wpc, wcur, wexit, oneshot, cresult,
                   ccmd, apiOk, nextId, enqLog, deqLog, callLog, replyLog>>
    /\ UNCHANGED notWorker

\* A Shutdown command is enqueued (it carries no reply handle).
SendShutdown ==
    /\ sendersOpen
    /\ wpc # "exited"
    /\ 0 \notin SeqToSet(enqLog)
    /\ cmdq' = Append(cmdq, [id |-> 0, cmd |-> "Shutdown"])
    /\ enqLog' = Append(enqLog, 0)
    /\ UNCHANGED <<wkind, sendersOpen, wpc, wcur, wexit, oneshot, rxDropped,
                   cstate, cresult, ccmd, apiOk, nextId, deqLog, callLog, replyLog>>
    /\ UNCHANGED notWorker

\* The worker struct is dropped: the last command_tx goes away.
DropSenders ==
    /\ sendersOpen
    /\ sendersOpen' = FALSE
    /\ UNCHANGED <<wkind, cmdq, wpc, wcur, wexit, oneshot, rxDropped, cstate,
                   cresult, ccmd, apiOk, nextId, enqLog, deqLog, callLog, replyLog>>
    /\ UNCHANGED notWorker

\* Leaving the loop drops command_rx and with it every queued command and its
\* reply handle.
CloseQueued(slots, q) ==
    [i \in Ids |-> IF \E j \in 1..Len(q) : q[j].id = i /\ slots[i] = "empty"
                   THEN "closed" ELSE slots[i]]

\* (mutant) a worker that honours cancellation: a command whose reply handle
\* is already closed is dequeued and skipped without calling the exchange
WorkerRecvSkipsCancelled ==
    /\ wpc = "recv"
    /\ cmdq # <<>>
    /\ LET c == Head(cmdq) IN
       /\ deqLog' = Append(deqLog, c.id)
       /\ IF c.cmd = "Shutdown"
          THEN /\ wpc' = "exited"
               /\ wexit' = "shutdown"
               /\ oneshot' = CloseQueued(oneshot, Tail(cmdq))
               /\ cmdq' = <<>>
               /\ UNCHANGED <<wcur, callLog>>
          ELSE IF rxDropped[c.id]
          THEN /\ cmdq' = Tail(cmdq)
               /\ UNCHANGED <<wpc, wcur, wexit, oneshot, callLog>>
          ELSE /\ wpc' = "call"
               /\ wcur' = c
               /\ callLog' = Append(callLog, c.id)
               /\ cmdq' = Tail(cmdq)
               /\ UNCHANGED <<wexit, oneshot>>
    /\ UNCHANGED <<wkind, sendersOpen, rxDropped, cstate, cresult, ccmd, apiOk,
                   nextId, enqLog, replyLog>>
    /\ UNCHANGED notWorker

\* (mutant) a worker whose command receiver outlives the loop: the commands
\* queued behind Shutdown keep their reply handles
WorkerRecvKeepsQueue ==
    /\ wpc = "recv"
    /\ cmdq # <<>>
    /\ LET c == Head(cmdq) IN
       /\ deqLog' = Append(deqLog, c.id)
       /\ IF c.cmd = "Shutdown"
          THEN /\ wpc' = "exited"
               /\ wexit' = "shutdown"
               /\ cmdq' = Tail(cmdq)
               /\ UNCHANGED <<wcur, callLog, oneshot>>
          ELSE /\ wpc' = "call"
               /\ wcur' = c
               /\ callLog' = Append(callLog, c.id)
               /\ cmdq' = Tail(cmdq)
               /\ UNCHANGED <<wexit, oneshot>>
    /\ UNCHANGED <<wkind, sendersOpen, rxDropped, cstate, cresult, ccmd, apiOk,
                   nextId, enqLog, replyLog>>
    /\ UNCHANGED notWorker

\* command_rx.recv() returns a command: Shutdown breaks the loop, any other
\* command starts its blocking exchange call.
WorkerRecv ==
    /\ wpc = "recv"
    /\ cmdq # <<>>
    /\ LET c == Head(cmdq) IN
       /\ deqLog' = Append(deqLog, c.id)
       /\ IF c.cmd = "Shutdown"
          THEN /\ wpc' = "exited"
               /\ wexit' = "shutdown"
               /\ oneshot' = CloseQueued(oneshot, Tail(cmdq))
               /\ cmdq' = <<>>
               /\ UNCHANGED <<wcur, callLog>>
          ELSE /\ wpc' = "call"
               /\ wcur' = c
               /\ callLog' = Append(callLog, c.id)
               /\ cmdq' = Tail(cmdq)
               /\ UNCHANGED <<wexit, oneshot>>
    /\ UNCHANGED <<wkind, sendersOpen, rxDropped, cstate, cresult, ccmd, apiOk,
                   nextId, enqLog, replyLog>>
    /\ UNCHANGED notWorker

\* (mutant) a worker that sends no reply when the exchange call failed
WorkerCompleteSilentOnError(ok) ==
    /\ wpc = "call"
    /\ LET resp == WorkerResponse(wkind, wcur.cmd, ok)
           delivered == ~rxDropped[wcur.id]
       IN  /\ apiOk' = [apiOk EXCEPT ![wcur.id] = IF ok THEN "ok" ELSE "fail"]
           /\ oneshot' = [oneshot EXCEPT ![wcur.id] =
                             IF delivered /\ ok THEN resp ELSE "closed"]
           /\ replyLog' = IF ok THEN Append(replyLog, [id |-> wcur.id, resp |-> resp,
                                                       delivered |-> delivered])
                          ELSE replyLog
    /\ wpc' = "recv"
    /\ wcur' = [id |-> 0, cmd |-> "none"]
    /\ UNCHANGED <<wkind, cmdq, sendersOpen, wexit, rxDropped, cstate, cresult,
                   ccmd, nextId, enqLog, deqLog, callLog>>
    /\ UNCHANGED notWorker

\* (mutant) a worker that leaves its loop when the exchange call failed
WorkerCompleteStopsOnError(ok) ==
    /\ wpc = "call"
    /\ LET resp == WorkerResponse(wkind, wcur.cmd, ok)
           delivered == ~rxDropped[wcur.id]
       IN  /\ apiOk' = [apiOk EXCEPT ![wcur.id] = IF ok THEN "ok" ELSE "fail"]
           /\ oneshot' = [oneshot EXCEPT ![wcur.id] =
                             IF delivered THEN resp ELSE "closed"]
           /\ replyLog' = Append(replyLog, [id |-> wcur.id, resp |-> resp,
                                            delivered |-> delivered])
    /\ wpc' = IF ok THEN "recv" ELSE "exited"
    /\ wcur' = [id |-> 0, cmd |-> "none"]
    /\ UNCHANGED <<wkind, cmdq, sendersOpen, wexit, rxDropped, cstate, cresult,
                   ccmd, nextId, enqLog, deqLog, callLog>>
    /\ UNCHANGED notWorker

\* The blocking call returns; the response is built and sent on the reply
\* handle: let _ = response_tx.send(response).
WorkerComplete(ok) ==
    /\ wpc = "call"
    /\ LET resp == WorkerResponse(wkind, wcur.cmd, ok)
           delivered == ~rxDropped[wcur.id]
       IN  /\ apiOk' = [apiOk EXCEPT ![wcur.id] = IF ok THEN "ok" ELSE "fail"]
           /\ oneshot' = [oneshot EXCEPT ![wcur.id] =
                             IF delivered THEN resp ELSE "closed"]
           /\ replyLog' = Append(replyLog, [id |-> wcur.id, resp |-> resp,
                                            delivered |-> delivered])
    /\ wpc' = "recv"
    /\ wcur' = [id |-> 0, cmd |-> "none"]
    /\ UNCHANGED <<wkind, cmdq, sendersOpen, wexit, rxDropped, cstate, cresult,
                   ccmd, nextId, enqLog, deqLog, callLog>>
    /\ UNCHANGED notWorker

\* command_rx.recv() returns Err: the queue is empty and every sender is gone.
WorkerChannelClosed ==
    /\ wpc = "recv"
    /\ cmdq = <<>>
    /\ ~sendersOpen
    /\ wpc' = "exited"
    /\ wexit' = "closed"
    /\ UNCHANGED <<wkind, cmdq, sendersOpen, wcur, oneshot, rxDropped, cstate,
                   cresult, ccmd, apiOk, nextId, enqLog, deqLog, callLog, replyLog>>
    /\ UNCHANGED notWorker

WorkerNext ==
    \/ \E cmd \in CommandsOf(wkind) : WrapperCall(cmd)
    \/ \E i \in Ids : WrapperAwait(i)
    \/ \E i \in Ids : CallerCancel(i)
    \/ SendShutdown
    \/ DropSenders
    \/ WorkerRecv
    \/ \E ok \in BOOLEAN : WorkerComplete(ok)
    \/ WorkerChannelClosed



-----------------------------------------------------------------------------
(* ExecutionManager::execute in live mode.                                 *)
(*                                                                         *)
(* Quantities are integers in units of QtyUnit BTC (1e-6), the USDT        *)
(* balance is in whole USD and a price hint is in units of PriceUnit USD;  *)
(* the arithmetic below is the code's f64 arithmetic carried out exactly.  *)

QtyPerBtc == 1000000      \* quantity units per BTC
PriceUnit == 1000         \* USD per price unit
QtyStep == 10             \* quantity units in 0.00001 BTC (5 decimal places)

NoPrice == -1             \* price: None

\* price.unwrap_or(90000.0), in price units
DefaultPriceHint == 90

\* the minimum notional, 5.0 USD
MinNotional == 5

Sides == {"Buy", "Sell", "Cancel"}
PriceHints == {NoPrice, 0, 50, 100}
Quantities == {0, 9, 49, 50, 59, 60, 105, 1000}
UsdtBalances == {0, 4, 5, 6, 100}
BtcBalances == {0, 9, 55, 2000}

\* (mutant) rounding to the nearest 0.00001 instead of truncating
truncate_qty_round(q) == ((q + QtyStep \div 2) \div QtyStep) * QtyStep

\* truncate_qty(qty, 5): (qty * 10^5).floor() / 10^5, for qty >= 0
truncate_qty(q) == (q \div QtyStep) * QtyStep

est_price(sig) == IF sig.price = NoPrice THEN DefaultPriceHint ELSE sig.price

\* order_value < 5.0, with order_value = qty * est_price
BelowMinNotional(q, price) ==
    q * price * PriceUnit < MinNotional * QtyPerBtc

\* usdt_balance < quantity * est_price * 1.001
InsufficientUsdt(usdt, q, price) ==
    usdt * QtyPerBtc < q * price * 1001

\* (usdt_balance * 0.995) / est_price, truncated to 5 decimal places
MaxAffordable(usdt, price) ==
    ((usdt * 995) \div (10 * price)) * QtyStep

\* (mutant) the balance-clamped buy is sent without the minimum-notional check
LiveBuyDecisionNoClampCheck(sig, bal) ==
    LET p == est_price(sig) IN
    IF InsufficientUsdt(bal.usdt, sig.qty, p)
    THEN LET max_qty == MaxAffordable(bal.usdt, p) IN
         IF max_qty < QtyStep THEN [send |-> FALSE, qty |-> 0]
         ELSE [send |-> TRUE, qty |-> max_qty]
    ELSE LET qty == truncate_qty(sig.qty) IN
         IF BelowMinNotional(qty, p) THEN [send |-> FALSE, qty |-> 0]
         ELSE [send |-> TRUE, qty |-> qty]

\* Signal::Buy arm: what is sent to the worker, if anything
LiveBuyDecision(sig, bal) ==
    LET p == est_price(sig) IN
    IF InsufficientUsdt(bal.usdt, sig.qty, p)
    THEN LET max_qty == MaxAffordable(bal.usdt, p) IN
         IF BelowMinNotional(max_qty, p) THEN [send |-> FALSE, qty |-> 0]
         ELSE IF max_qty < QtyStep THEN [send |-> FALSE, qty |-> 0]
         ELSE [send |-> TRUE, qty |-> max_qty]
    ELSE LET qty == truncate_qty(sig.qty) IN
         IF BelowMinNotional(qty, p) THEN [send |-> FALSE, qty |-> 0]
         ELSE [send |-> TRUE, qty |-> qty]

\* Signal::Sell arm
LiveSellDecision(sig, bal) ==
    LET p == est_price(sig) IN
    IF bal.btc < sig.qty
    THEN IF bal.btc < QtyStep THEN [send |-> FALSE, qty |-> 0]
         ELSE LET sell_qty == truncate_qty(bal.btc) IN
              IF BelowMinNotional(sell_qty, p) THEN [send |-> FALSE, qty |-> 0]
              ELSE [send |-> TRUE, qty |-> sell_qty]
    ELSE LET sell_qty == truncate_qty(sig.qty) IN
         IF BelowMinNotional(sell_qty, p) THEN [send |-> FALSE, qty |-> 0]
         ELSE [send |-> TRUE, qty |-> sell_qty]

ExecIdle ==
    /\ exPc = "idle"
    /\ exSignal = [side |-> "none", price |-> NoPrice, qty |-> 0]
    /\ exBal = [usdt |-> 0, btc |-> 0]
    /\ exSent = <<>>
    /\ exResult = "none"

\* execute(signal) is called: the balances are fetched first.
ExecStart(side, price, qty) ==
    /\ exPc = "idle"
    /\ exSignal' = [side |-> side, price |-> IF side = "Cancel" THEN NoPrice ELSE price,
                    qty |-> IF side = "Cancel" THEN 0 ELSE qty]
    /\ exSent' = Append(exSent, [cmd |-> "GetAccount", qty |-> 0, hint |-> 0])
    /\ exPc' = "balances"
    /\ UNCHANGED <<exBal, exResult>>
    /\ UNCHANGED notExec

\* worker.get_account() failed: execute returns Err.
ExecBalancesFailed ==
    /\ exPc = "balances"
    /\ exResult' = "Err"
    /\ exPc' = "done"
    /\ UNCHANGED <<exSignal, exBal, exSent>>
    /\ UNCHANGED notExec

\* worker.get_account() returned the balances: the order is sized, checked
\* against the minimum notional and sent, or skipped with Ok(0.0).
ExecBalances(usdt, btc) ==
    /\ exPc = "balances"
    /\ LET bal == [usdt |-> usdt, btc |-> btc] IN
       /\ exBal' = bal
       /\ IF exSignal.side = "Cancel"
          THEN /\ exSent' = Append(exSent, [cmd |-> "CancelOrder", qty |-> 0, hint |-> 0])
               /\ exPc' = "cancel"
               /\ UNCHANGED exResult
          ELSE LET dec == IF exSignal.side = "Buy" THEN LiveBuyDecision(exSignal, bal)
                          ELSE LiveSellDecision(exSignal, bal)
               IN  IF dec.send
                   THEN /\ exSent' = Append(exSent,
                              [cmd |-> IF exSignal.side = "Buy" THEN "MarketBuy"
                                       ELSE "MarketSell",
                               qty |-> dec.qty, hint |-> est_price(exSignal)])
                        /\ exPc' = "order"
                        /\ UNCHANGED exResult
                   ELSE /\ exResult' = "Ok0"
                        /\ exPc' = "done"
                        /\ UNCHANGED exSent
    /\ UNCHANGED exSignal
    /\ UNCHANGED notExec

\* worker.market_buy / market_sell returned.
ExecOrderReply(ok) ==
    /\ exPc = "order"
    /\ exResult' = IF ok THEN "Ok0" ELSE "Err"
    /\ exPc' = "done"
    /\ UNCHANGED <<exSignal, exBal, exSent>>
    /\ UNCHANGED notExec

\* worker.cancel_order returned: an error is logged, execute returns Ok(0.0).
ExecCancelReply(ok) ==
    /\ exPc = "cancel"
    /\ exResult' = "Ok0"
    /\ exPc' = "done"
    /\ UNCHANGED <<exSignal, exBal, exSent>>
    /\ UNCHANGED notExec

ExecNext ==
    \/ \E side \in Sides, price \in PriceHints, qty \in Quantities :
          ExecStart(side, price, qty)
    \/ ExecBalancesFailed
    \/ \E usdt \in UsdtBalances, btc \in BtcBalances : ExecBalances(usdt, btc)
    \/ \E ok \in BOOLEAN : ExecOrderReply(ok)
    \/ \E ok \in BOOLEAN : ExecCancelReply(ok)

-----------------------------------------------------------------------------
(* ExecutionManager::execute in simulation mode (paper trading and the     *)
(* backtester), for the one symbol the program trades.                     *)
(*                                                                         *)
(* A quantity is a whole number of lots of 0.1 BTC, a price hint is in     *)
(* whole USD and money is in units of 0.0001 USD, so that the 0.1 % fee on *)
(* one lot is a whole number of units. An entry price and a realized PnL   *)
(* are exact fractions [n, d] of money units; the arithmetic is the        *)
(* code's f64 arithmetic carried out exactly.                              *)

LotsPerBtc == 10
MoneyPerUsd == 10000
MoneyPerLotUsd == 1000    \* money units in (one lot) x (one USD)
FeeDivisor == 1000        \* fee = amount * 0.001
InitialUsdt == 10000      \* USD
MaxSimOrders == 3

RECURSIVE Gcd(_, _)
Gcd(a, b) == IF b = 0 THEN a ELSE Gcd(b, a % b)

\* the fraction n / d, d > 0, in lowest terms
Frac(n, d) ==
    LET g == Gcd(Abs(n), d) IN [n |-> n \div g, d |-> d \div g]

FracAdd(x, y) == Frac(x.n * y.d + y.n * x.d, x.d * y.d)
FracSub(x, y) == Frac(x.n * y.d - y.n * x.d, x.d * y.d)
FracTimes(x, k) == Frac(x.n * k, x.d)
FracOver(x, k) == Frac(x.n, x.d * k)
FracOf(k) == [n |-> k, d |-> 1]

SimPrices == {NoPrice, 0, 1000, 1100, 60000}
SimLots == {1, 2}

SimSignals ==
    [side : {"Buy", "Sell"}, price : SimPrices, quantity : SimLots]
    \cup {[side |-> "Cancel", price |-> NoPrice, quantity |-> 0]}

SimNew ==
    [balances |-> [USDT |-> InitialUsdt * MoneyPerUsd, BTC |-> 0],
     positions |-> <<>>]

PositionInfo(amount, entry_price) ==
    [symbol |-> "BTCUSDT", amount |-> amount, entry_price |-> entry_price]

\* a lot count that is at most 0.000001 BTC
IsDust(amount) == amount * 1000000 <= LotsPerBtc

\* the Sell arm that returns the whole net revenue as realized PnL
sim_sell_gross(bal, pos, sig) ==
    LET hint == IF sig.price = NoPrice THEN 0 ELSE sig.price IN
    IF bal.BTC >= sig.quantity
    THEN LET bal1 == [bal EXCEPT !.BTC = @ - sig.quantity] IN
         IF hint = 0
         THEN [balances |-> bal1, positions |-> pos, pnl |-> FracOf(0)]
         ELSE LET revenue == sig.quantity * hint * MoneyPerLotUsd
                  fee == revenue \div FeeDivisor
                  bal2 == [bal1 EXCEPT !.USDT = @ + revenue - fee]
              IN  IF pos # <<>>
                  THEN LET left == pos[1].amount - sig.quantity IN
                       [balances |-> bal2,
                        positions |-> IF IsDust(left) THEN Tail(pos)
                                      ELSE <<[pos[1] EXCEPT !.amount = left]>>,
                        pnl |-> FracOf(revenue - fee)]
                  ELSE [balances |-> bal2, positions |-> pos, pnl |-> FracOf(0)]
    ELSE [balances |-> bal, positions |-> pos, pnl |-> FracOf(0)]

\* the Buy arm without the fee
sim_buy_free(bal, pos, sig) ==
    LET hint == IF sig.price = NoPrice THEN 0 ELSE sig.price IN
    IF hint = 0
    THEN [balances |-> bal, positions |-> pos, pnl |-> FracOf(0)]
    ELSE LET cost == sig.quantity * hint * MoneyPerLotUsd IN
         IF bal.USDT >= cost
         THEN [balances |-> [bal EXCEPT !.USDT = @ - cost,
                                        !.BTC = @ + sig.quantity],
               positions |->
                 IF pos # <<>>
                 THEN LET total_cost ==
                              FracAdd(FracTimes(pos[1].entry_price, pos[1].amount),
                                      FracOf(cost))
                          amount == pos[1].amount + sig.quantity
                      IN  <<PositionInfo(amount, FracOver(total_cost, amount))>>
                 ELSE <<PositionInfo(sig.quantity,
                                     FracOver(FracOf(cost), sig.quantity))>>,
               pnl |-> FracOf(0)]
         ELSE [balances |-> bal, positions |-> pos, pnl |-> FracOf(0)]

sim_buy(bal, pos, sig) ==
    LET hint == IF sig.price = NoPrice THEN 0 ELSE sig.price IN
    IF hint = 0
    THEN [balances |-> bal, positions |-> pos, pnl |-> FracOf(0)]
    ELSE LET fee == (sig.quantity * hint * MoneyPerLotUsd) \div FeeDivisor
             cost == sig.quantity * hint * MoneyPerLotUsd + fee
         IN  IF bal.USDT >= cost
             THEN [balances |-> [bal EXCEPT !.USDT = @ - cost,
                                            !.BTC = @ + sig.quantity],
                   positions |->
                     IF pos # <<>>
                     THEN LET total_cost ==
                                  FracAdd(FracTimes(pos[1].entry_price, pos[1].amount),
                                          FracOf(cost))
                              amount == pos[1].amount + sig.quantity
                          IN  <<PositionInfo(amount, FracOver(total_cost, amount))>>
                     ELSE <<PositionInfo(sig.quantity,
                                         FracOver(FracOf(cost), sig.quantity))>>,
                   pnl |-> FracOf(0)]
             ELSE [balances |-> bal, positions |-> pos, pnl |-> FracOf(0)]

\* the BTC balance is reduced before the price hint is looked at
sim_sell(bal, pos, sig) ==
    LET hint == IF sig.price = NoPrice THEN 0 ELSE sig.price IN
    IF bal.BTC >= sig.quantity
    THEN LET bal1 == [bal EXCEPT !.BTC = @ - sig.quantity] IN
         IF hint = 0
         THEN [balances |-> bal1, positions |-> pos, pnl |-> FracOf(0)]
         ELSE LET revenue == sig.quantity * hint * MoneyPerLotUsd
                  fee == revenue \div FeeDivisor
                  bal2 == [bal1 EXCEPT !.USDT = @ + revenue - fee]
              IN  IF pos # <<>>
                  THEN LET buy_price == pos[1].entry_price
                           left == pos[1].amount - sig.quantity
                       IN  [balances |-> bal2,
                            positions |-> IF IsDust(left) THEN Tail(pos)
                                          ELSE <<[pos[1] EXCEPT !.amount = left]>>,
                            pnl |-> FracSub(FracOf(revenue - fee),
                                            FracTimes(buy_price, sig.quantity))]
                  ELSE [balances |-> bal2, positions |-> pos, pnl |-> FracOf(0)]
    ELSE [balances |-> bal, positions |-> pos, pnl |-> FracOf(0)]

sim_execute(bal, pos, sig) ==
    CASE sig.side = "Buy" -> sim_buy(bal, pos, sig)
      [] sig.side = "Sell" -> sim_sell(bal, pos, sig)
      [] OTHER -> [balances |-> bal, positions |-> pos, pnl |-> FracOf(0)]

SimInit0 ==
    /\ sim_balances = SimNew.balances
    /\ sim_positions = SimNew.positions
    /\ simLog = <<>>
    /\ simBefore = SimNew
    /\ simPnl = FracOf(0)
    /\ simPnlSum = FracOf(0)

SimIdle == SimInit0

\* one execute call; both mutexes are held from its first statement to its
\* return
SimExecute(sig) ==
    /\ Len(simLog) < MaxSimOrders
    /\ LET r == sim_execute(sim_balances, sim_positions, sig) IN
       /\ sim_balances' = r.balances
       /\ sim_positions' = r.positions
       /\ simPnl' = r.pnl
       /\ simPnlSum' = FracAdd(simPnlSum, r.pnl)
    /\ simLog' = Append(simLog, sig)
    /\ simBefore' = [balances |-> sim_balances, positions |-> sim_positions]
    /\ UNCHANGED notSim

SimNext == \E sig \in SimSignals : SimExecute(sig)

-----------------------------------------------------------------------------
(* The historical downloader (market_data/downloader.rs): ensure_data_range *)
(* and fetch_and_save_range_public. Timestamps are in milliseconds. A      *)
(* chunk's future is polled by buffer_unordered, takes a permit, sleeps,   *)
(* runs the exchange call on a blocking thread and saves what it got.      *)

MAX_WINDOW_MS == 3600000
MAX_CONCURRENT_REQUESTS == 5

NoTime == -1

Range(a, b) == [start |-> a, end |-> b]

Min2(a, b) == IF a < b THEN a ELSE b

\* the chunk loop that leaves one millisecond between two windows
RECURSIVE chunks_of_spaced(_, _)
chunks_of_spaced(start_ts, end_ts) ==
    IF start_ts < end_ts
    THEN LET chunk_end == Min2(start_ts + MAX_WINDOW_MS, end_ts) IN
         <<Range(start_ts, chunk_end)>> \o chunks_of_spaced(chunk_end + 1, end_ts)
    ELSE <<>>

\* the chunk loop
RECURSIVE chunks_of(_, _)
chunks_of(start_ts, end_ts) ==
    IF start_ts < end_ts
    THEN LET chunk_end == Min2(start_ts + MAX_WINDOW_MS, end_ts) IN
         <<Range(start_ts, chunk_end)>> \o chunks_of(chunk_end, end_ts)
    ELSE <<>>

\* the calls ensure_data_range makes, from the bounds it read
ensure_data_range(db_min, db_max, start_ts, end_ts) ==
    LET need_before == ~(db_min # NoTime /\ db_min <= start_ts)
        need_after == ~(db_max # NoTime /\ db_max >= end_ts)
        existing_min == IF db_min # NoTime THEN db_min ELSE end_ts
        existing_max == IF db_max # NoTime THEN db_max ELSE start_ts
    IN  IF ~need_before /\ ~need_after THEN <<>>
        ELSE (IF need_before /\ start_ts < existing_min
              THEN <<Range(start_ts, existing_min)>> ELSE <<>>)
             \o (IF need_after /\ end_ts > existing_max
                 THEN <<Range(existing_max, end_ts)>> ELSE <<>>)

\* a chunk's future: where it is, whether it holds a permit, whether it
\* has slept, what the exchange call returned, how the insert went
DlQueued ==
    [pc |-> "queued", permit |-> FALSE, slept |-> FALSE, reply |-> "none",
     save |-> "none"]

Replies == {"events", "empty", "api_error", "task_error"}
SaveResults == {"ok", "error"}

Active(tasks) == {i \in DOMAIN tasks : tasks[i].pc \notin {"queued", "done"}}

Hour == MAX_WINDOW_MS

\* stores: empty, or holding trades from hour 1 to hour 2
DlStores == {Range(NoTime, NoTime), Range(Hour, 2 * Hour)}

\* requests of ensure_data_range
DlRanges ==
    {Range(0, 2 * Hour), Range(Hour, 2 * Hour), Range(0, 3 * Hour),
     Range(Hour + 1, 3 * Hour)}

\* arguments of fetch_and_save_range_public called directly; the first has
\* one chunk more than may be in progress at once
DlFetches ==
    {Range(0, (MAX_CONCURRENT_REQUESTS + 1) * Hour), Range(5, 2 * Hour + 7), Range(Hour, Hour),
     Range(2 * Hour, Hour)}

DlInit0(pc, store, req, plan) ==
    /\ dlPc = pc
    /\ dlStore = store
    /\ dlReq = req
    /\ dlPlan = plan
    /\ dlCalls = <<>>
    /\ dlChunks = <<>>
    /\ dlTask = <<>>
    /\ dlPermits = MAX_CONCURRENT_REQUESTS

DlIdle == DlInit0("idle", Range(NoTime, NoTime), Range(0, 0), <<>>)

\* ensure_data_range reads the bounds and decides what to fetch
DlEnsure ==
    /\ dlPc = "ensure"
    /\ dlPlan' = ensure_data_range(dlStore.start, dlStore.end, dlReq.start, dlReq.end)
    /\ dlPc' = "call"
    /\ UNCHANGED <<dlStore, dlReq, dlCalls, dlChunks, dlTask, dlPermits>>
    /\ UNCHANGED notDl

\* the next fetch_and_save_range_public call starts, or the caller returns
DlFetchBegin ==
    /\ dlPc = "call"
    /\ IF dlPlan = <<>>
       THEN /\ dlPc' = "returned"
            /\ UNCHANGED <<dlPlan, dlCalls, dlChunks, dlTask, dlPermits>>
       ELSE LET chunks == chunks_of(Head(dlPlan).start, Head(dlPlan).end) IN
            /\ dlChunks' = chunks
            /\ dlTask' = [i \in 1..Len(chunks) |-> DlQueued]
            /\ dlPermits' = MAX_CONCURRENT_REQUESTS
            /\ dlCalls' = Append(dlCalls, Head(dlPlan))
            /\ dlPlan' = Tail(dlPlan)
            /\ dlPc' = "fetching"
    /\ UNCHANGED <<dlStore, dlReq>>
    /\ UNCHANGED notDl

\* buffer_unordered polls the next future without the sleep
DlPollAwake(i) ==
    /\ dlPc = "fetching"
    /\ i \in DOMAIN dlTask
    /\ dlTask[i].pc = "queued"
    /\ \A j \in 1..(i - 1) : dlTask[j].pc # "queued"
    /\ Cardinality(Active(dlTask)) < MAX_CONCURRENT_REQUESTS
    /\ IF dlPermits > 0
       THEN /\ dlTask' = [dlTask EXCEPT ![i].pc = "calling", ![i].permit = TRUE]
            /\ dlPermits' = dlPermits - 1
       ELSE /\ dlTask' = [dlTask EXCEPT ![i].pc = "waiting"]
            /\ UNCHANGED dlPermits
    /\ UNCHANGED <<dlPc, dlStore, dlReq, dlPlan, dlCalls, dlChunks>>
    /\ UNCHANGED notDl

\* buffer_unordered polls the next future while fewer than five are in
\* progress: it takes a permit and starts its sleep
DlPoll(i) ==
    /\ dlPc = "fetching"
    /\ i \in DOMAIN dlTask
    /\ dlTask[i].pc = "queued"
    /\ \A j \in 1..(i - 1) : dlTask[j].pc # "queued"
    /\ Cardinality(Active(dlTask)) < MAX_CONCURRENT_REQUESTS
    /\ IF dlPermits > 0
       THEN /\ dlTask' = [dlTask EXCEPT ![i].pc = "sleeping", ![i].permit = TRUE]
            /\ dlPermits' = dlPermits - 1
       ELSE /\ dlTask' = [dlTask EXCEPT ![i].pc = "waiting"]
            /\ UNCHANGED dlPermits
    /\ UNCHANGED <<dlPc, dlStore, dlReq, dlPlan, dlCalls, dlChunks>>
    /\ UNCHANGED notDl

\* the 200 ms are over: the exchange call is sent from a blocking thread
DlWake(i) ==
    /\ dlPc = "fetching"
    /\ i \in DOMAIN dlTask
    /\ dlTask[i].pc = "sleeping"
    /\ dlTask' = [dlTask EXCEPT ![i].pc = "calling", ![i].slept = TRUE]
    /\ UNCHANGED <<dlPc, dlStore, dlReq, dlPlan, dlCalls, dlChunks, dlPermits>>
    /\ UNCHANGED notDl

\* the blocking task ends, and a failure ends the whole call
DlReplyAbort(i, r) ==
    /\ dlPc = "fetching"
    /\ i \in DOMAIN dlTask
    /\ dlTask[i].pc = "calling"
    /\ IF r = "events"
       THEN /\ dlTask' = [dlTask EXCEPT ![i].pc = "saving", ![i].reply = r]
            /\ UNCHANGED <<dlPermits, dlPc>>
       ELSE /\ dlTask' = [dlTask EXCEPT ![i].pc = "done", ![i].reply = r,
                                         ![i].permit = FALSE]
            /\ dlPermits' = dlPermits + 1
            /\ dlPc' = IF r = "empty" THEN dlPc ELSE "call"
    /\ UNCHANGED <<dlStore, dlReq, dlPlan, dlCalls, dlChunks>>
    /\ UNCHANGED notDl

\* the blocking task ends: events, an empty list, an API error or a failed
\* task; only a non-empty list goes on to the bulk insert
DlReply(i, r) ==
    /\ dlPc = "fetching"
    /\ i \in DOMAIN dlTask
    /\ dlTask[i].pc = "calling"
    /\ IF r = "events"
       THEN /\ dlTask' = [dlTask EXCEPT ![i].pc = "saving", ![i].reply = r]
            /\ UNCHANGED dlPermits
       ELSE /\ dlTask' = [dlTask EXCEPT ![i].pc = "done", ![i].reply = r,
                                         ![i].permit = FALSE]
            /\ dlPermits' = dlPermits + 1
    /\ UNCHANGED <<dlPc, dlStore, dlReq, dlPlan, dlCalls, dlChunks>>
    /\ UNCHANGED notDl

\* save_aggr_trades_bulk returns; the future ends and drops its permit
DlSave(i, r) ==
    /\ dlPc = "fetching"
    /\ i \in DOMAIN dlTask
    /\ dlTask[i].pc = "saving"
    /\ dlTask' = [dlTask EXCEPT ![i].pc = "done", ![i].save = r,
                                ![i].permit = FALSE]
    /\ dlPermits' = dlPermits + 1
    /\ UNCHANGED <<dlPc, dlStore, dlReq, dlPlan, dlCalls, dlChunks>>
    /\ UNCHANGED notDl

\* collect() has every result: fetch_and_save_range_public returns Ok(())
DlFetchReturn ==
    /\ dlPc = "fetching"
    /\ \A i \in DOMAIN dlTask : dlTask[i].pc = "done"
    /\ dlPc' = "call"
    /\ UNCHANGED <<dlStore, dlReq, dlPlan, dlCalls, dlChunks, dlTask, dlPermits>>
    /\ UNCHANGED notDl

DlNext ==
    \/ DlEnsure
    \/ DlFetchBegin
    \/ \E i \in 1..(MAX_CONCURRENT_REQUESTS + 1) : DlPoll(i)
    \/ \E i \in 1..(MAX_CONCURRENT_REQUESTS + 1) : DlWake(i)
    \/ \E i \in 1..(MAX_CONCURRENT_REQUESTS + 1), r \in Replies : DlReply(i, r)
    \/ \E i \in 1..(MAX_CONCURRENT_REQUESTS + 1), r \in SaveResults : DlSave(i, r)
    \/ DlFetchReturn

-----------------------------------------------------------------------------
(* save_aggr_trades_bulk (database/repository.rs) and the aggr_trades      *)
(* table with its unique index on (symbol, market_type, trade_id). One     *)
(* symbol is stored; a batch is a sequence of aggregate trade ids. The     *)
(* multi-row INSERT is one statement: it stores every row or none.         *)

MaxSaves == 3
MaxBatch == 2

TradeIds == {1, 2}
MarketTypes == {"spot", "futures"}

RECURSIVE SeqsUpTo(_, _)
SeqsUpTo(S, n) ==
    IF n = 0 THEN {<<>>}
    ELSE SeqsUpTo(S, n - 1) \cup {Append(q, x) : q \in SeqsUpTo(S, n - 1), x \in S}

Batches == SeqsUpTo(TradeIds, MaxBatch)

\* what can go wrong with the statement apart from the index
Faults == {"none", "connection"}

Keys(events, market_type) == {<<market_type, events[k]>> : k \in DOMAIN events}

\* the INSERT statement: the error it ends with, and the rows afterwards
db_insert(rows, events, market_type, fault) ==
    LET keys == Keys(events, market_type)
        clash == \/ keys \cap rows # {}
                 \/ Cardinality(keys) < Len(events)
    IN  IF fault # "none" THEN [rows |-> rows, error |-> fault]
        ELSE IF clash THEN [rows |-> rows, error |-> "duplicate key"]
        ELSE [rows |-> rows \cup keys, error |-> "none"]

\* save_aggr_trades_bulk that passes every error on
save_aggr_trades_bulk_strict(rows, events, market_type, fault) ==
    IF events = <<>> THEN [rows |-> rows, result |-> "Ok"]
    ELSE LET r == db_insert(rows, events, market_type, fault) IN
         [rows |-> r.rows, result |-> IF r.error = "none" THEN "Ok" ELSE "Err"]

save_aggr_trades_bulk(rows, events, market_type, fault) ==
    IF events = <<>> THEN [rows |-> rows, result |-> "Ok"]
    ELSE LET r == db_insert(rows, events, market_type, fault) IN
         [rows |-> r.rows,
          result |-> IF r.error = "none" THEN "Ok"
                     ELSE IF r.error = "duplicate key" THEN "Ok"
                     ELSE "Err"]

NoSave == [result |-> "none"]

DbInit0 ==
    /\ dbRows = {}
    /\ dbLast = NoSave
    /\ dbPrev = NoSave
    /\ dbCalls = 0

DbIdle == DbInit0

DbSave(events, market_type, fault) ==
    /\ dbCalls < MaxSaves
    /\ LET r == save_aggr_trades_bulk(dbRows, events, market_type, fault) IN
       /\ dbRows' = r.rows
       /\ dbLast' = [result |-> r.result, events |-> events,
                     market_type |-> market_type, fault |-> fault,
                     before |-> dbRows]
    /\ dbPrev' = dbLast
    /\ dbCalls' = dbCalls + 1
    /\ UNCHANGED notDb

DbNext ==
    \E events \in Batches, market_type \in MarketTypes, fault \in Faults :
        DbSave(events, market_type, fault)

-----------------------------------------------------------------------------
(* The lifecycle state machine (state_machine/mod.rs). The wall clock is   *)
(* counted in whole seconds; last_transition_time is the clock value at    *)
(* the last transition. The inferred matrix is display data and is left    *)
(* out.                                                                    *)

States == {"Booting", "Accumulating", "Analyzing", "Trading", "Cooldown"}

\* is_stable: elapsed().as_secs() > 5
StableSeconds == 5

MaxNow == 7

StateMachineNew(nowv) ==
    [current_state |-> "Booting",
     last_transition_time |-> nowv,
     transition_matrix |-> [p \in States \X States |-> 0]]

\* transition_to without the test for a self-loop
transition_to_always(smr, new_state, nowv) ==
    [current_state |-> new_state,
     last_transition_time |-> nowv,
     transition_matrix |->
        [smr.transition_matrix EXCEPT ![<<smr.current_state, new_state>>] = @ + 1]]

transition_to(smr, new_state, nowv) ==
    IF smr.current_state # new_state
    THEN [current_state |-> new_state,
          last_transition_time |-> nowv,
          transition_matrix |->
             [smr.transition_matrix EXCEPT ![<<smr.current_state, new_state>>] = @ + 1]]
    ELSE smr

is_stable(smr, nowv) ==
    IF smr.current_state = "Accumulating"
    THEN nowv - smr.last_transition_time > StableSeconds
    ELSE TRUE

-----------------------------------------------------------------------------
(* A StateMachine called on its own: transition_to with any target state   *)
(* and is_stable at any whole number of seconds after the last transition. *)

MaxTransitions == 3

MachineCall(before, arg, time) == [before |-> before, arg |-> arg, time |-> time]

NoQuery == [asked |-> FALSE, state |-> "Booting", elapsed |-> 0, answer |-> TRUE]

MachineInit0 ==
    /\ msm = StateMachineNew(0)
    /\ mLast = MachineCall(StateMachineNew(0), "Booting", 0)
    /\ mCalls = 0
    /\ mPerformed = [p \in States \X States |-> 0]
    /\ mQuery = NoQuery

MachineIdle == MachineInit0

MachineTransition(s) ==
    /\ mCalls < MaxTransitions
    /\ msm' = transition_to(msm, s, now)
    /\ mLast' = MachineCall(msm, s, now)
    /\ mCalls' = mCalls + 1
    /\ mPerformed' =
          IF msm'.current_state # msm.current_state
          THEN [mPerformed EXCEPT ![<<msm.current_state, msm'.current_state>>] = @ + 1]
          ELSE mPerformed
    /\ mQuery' = NoQuery
    /\ UNCHANGED <<appVars, harnessVars>>
    /\ UNCHANGED notMachine

MachineIsStable ==
    /\ mQuery' = [asked |-> TRUE, state |-> msm.current_state,
                  elapsed |-> now - msm.last_transition_time,
                  answer |-> is_stable(msm, now)]
    /\ UNCHANGED <<msm, mLast, mCalls, mPerformed>>
    /\ UNCHANGED <<appVars, harnessVars>>
    /\ UNCHANGED notMachine

-----------------------------------------------------------------------------
(* Strategies (strategy/*.rs). A market event is a record                  *)
(*   [kind, id, time, price, book_ok]                                      *)
(* with time in milliseconds, price in price units and book_ok telling     *)
(* whether an order book has both a bid and an ask. What a strategy's      *)
(* indicator says about the event's price (below / above its mean or its   *)
(* grid centre, or neither) is an input of the handler.                    *)
(* Scores and risk scores are in hundredths, quantities in quantity units  *)
(* and an opportunity's price in thousandths of a price unit.              *)

EventKinds == {"Trade", "AggrTrade", "OrderBook"}
Indicators == {"none", "below", "above"}
StrategyKinds == {"PaperTrader", "MeanReversion", "GridTrading", "BuyAndHold"}

\* GridTrading: event_time - last_signal_time > 10000
GridCooldownMs == 10000
\* GridTrading: positions.len() < 5
MaxGridPositions == 5
\* MeanReversion: prices.len() > 20 drops the oldest, prices.len() >= 10 trades
MeanWindow == 20
MeanMinPrices == 10

NewStrategy(kind) ==
    [kind |-> kind, trade_count |-> 0, n_prices |-> 0, has_bought |-> FALSE,
     last_signal_time |-> 0, positions |-> 0]

StrategyName(st) == st.kind

Opp(tag, n, side, price, qty, score, risk, ts) ==
    [id |-> <<tag, n>>, side |-> side, price |-> price, quantity |-> qty,
     score |-> score, risk_score |-> risk, timestamp |-> ts]

\* the Booting -> Accumulating -> Trading steps of the trade handlers
\* (mutant) a handler that passes through Analyzing on its way to Trading
DriveLifecycleThroughAnalyzing(smr, nowv) ==
    IF smr.current_state = "Booting"
    THEN transition_to(smr, "Accumulating", nowv)
    ELSE IF smr.current_state = "Accumulating" /\ is_stable(smr, nowv)
         THEN transition_to(smr, "Analyzing", nowv)
         ELSE IF smr.current_state = "Analyzing"
              THEN transition_to(smr, "Trading", nowv)
              ELSE smr

DriveLifecycle(smr, nowv) ==
    IF smr.current_state = "Booting"
    THEN transition_to(smr, "Accumulating", nowv)
    ELSE IF smr.current_state = "Accumulating" /\ is_stable(smr, nowv)
         THEN transition_to(smr, "Trading", nowv)
         ELSE smr

PaperTrader_handle_trade_data(st, smr, ev, nowv) ==
    LET count == st.trade_count + 1
        sm1 == DriveLifecycle(smr, nowv)
        buy == IF count % 5 = 0
               THEN <<Opp("buy", count, "Buy", ev.price * 999, 1000, 85, 20, ev.time)>>
               ELSE <<>>
        sell == IF count % 8 = 0
                THEN <<Opp("sell", count, "Sell", ev.price * 1001, 1000, 65, 40, ev.time)>>
                ELSE <<>>
    IN  [strategy |-> [st EXCEPT !.trade_count = count],
         sm |-> sm1,
         opps |-> IF sm1.current_state = "Trading" THEN buy \o sell ELSE <<>>]

PaperTrader_process_orderbook(st, smr, ev, nowv) ==
    [strategy |-> st,
     sm |-> IF smr.current_state = "Booting"
            THEN transition_to(smr, "Accumulating", nowv) ELSE smr,
     opps |-> <<>>]

MeanReversion_handle_trade_data(st, smr, ev, nowv, ind) ==
    LET count == st.trade_count + 1
        len == IF st.n_prices + 1 > MeanWindow THEN MeanWindow ELSE st.n_prices + 1
        sm1 == DriveLifecycle(smr, nowv)
        buy == IF ind = "below"
               THEN <<Opp("mr_buy", count, "Buy", ev.price * 1000, 1000, 80, 30, ev.time)>>
               ELSE <<>>
        sell == IF ind = "above"
                THEN <<Opp("mr_sell", count, "Sell", ev.price * 1000, 1000, 80, 30, ev.time)>>
                ELSE <<>>
    IN  [strategy |-> [st EXCEPT !.trade_count = count, !.n_prices = len],
         sm |-> sm1,
         opps |-> IF sm1.current_state = "Trading" /\ len >= MeanMinPrices
                  THEN buy \o sell ELSE <<>>]

MeanReversion_process_orderbook(st, smr, ev, nowv) ==
    [strategy |-> st,
     sm |-> IF ev.book_ok /\ smr.current_state = "Booting"
            THEN transition_to(smr, "Accumulating", nowv) ELSE smr,
     opps |-> <<>>]

GridTrading_process_trade(st, smr, ev, ind) ==
    IF smr.current_state = "Trading" /\ ev.time - st.last_signal_time > GridCooldownMs
    THEN IF ind = "below" /\ st.positions < MaxGridPositions
         THEN [strategy |-> [st EXCEPT !.positions = @ + 1, !.last_signal_time = ev.time],
               sm |-> smr,
               opps |-> <<Opp("grid_buy", ev.time, "Buy", ev.price * 1000, 500, 65, 30,
                              ev.time)>>]
         ELSE IF ind = "above" /\ st.positions > 0
              THEN [strategy |-> [st EXCEPT !.positions = @ - 1,
                                            !.last_signal_time = ev.time],
                    sm |-> smr,
                    opps |-> <<Opp("grid_sell", ev.time, "Sell", ev.price * 1000, 500,
                                   70, 25, ev.time)>>]
              ELSE [strategy |-> st, sm |-> smr, opps |-> <<>>]
    ELSE [strategy |-> st, sm |-> smr, opps |-> <<>>]

BuyAndHold_process_trade(st, smr, ev) ==
    IF ~st.has_bought
    THEN [strategy |-> [st EXCEPT !.has_bought = TRUE],
          sm |-> smr,
          opps |-> <<Opp("buy_hold", ev.time, "Buy", ev.price * 1000, 100000, 100, 0,
                         ev.time)>>]
    ELSE [strategy |-> st, sm |-> smr, opps |-> <<>>]

NoOpHandler(st, smr) == [strategy |-> st, sm |-> smr, opps |-> <<>>]

\* process_trade / process_aggr_trade / process_orderbook of the strategy
\* object, chosen by the kind of the event
process_event(st, smr, ev, nowv, ind) ==
    CASE st.kind = "PaperTrader" ->
            IF ev.kind = "OrderBook"
            THEN PaperTrader_process_orderbook(st, smr, ev, nowv)
            ELSE PaperTrader_handle_trade_data(st, smr, ev, nowv)
      [] st.kind = "MeanReversion" ->
            IF ev.kind = "OrderBook"
            THEN MeanReversion_process_orderbook(st, smr, ev, nowv)
            ELSE MeanReversion_handle_trade_data(st, smr, ev, nowv, ind)
      [] st.kind = "GridTrading" ->
            IF ev.kind = "Trade" THEN GridTrading_process_trade(st, smr, ev, ind)
            ELSE NoOpHandler(st, smr)
      [] st.kind = "BuyAndHold" ->
            IF ev.kind = "Trade" THEN BuyAndHold_process_trade(st, smr, ev)
            ELSE NoOpHandler(st, smr)

HandlerOf(ev) ==
    CASE ev.kind = "Trade" -> "process_trade"
      [] ev.kind = "AggrTrade" -> "process_aggr_trade"
      [] ev.kind = "OrderBook" -> "process_orderbook"
      [] OTHER -> "none"

\* what a handler invocation looked like, kept for the claims
CallRecord(st, smr, ev, nowv) ==
    [handler |-> HandlerOf(ev), strategy |-> st.kind,
     pre |-> smr.current_state, stable |-> is_stable(smr, nowv), time |-> ev.time]

NoCall ==
    [handler |-> "none", strategy |-> "none", pre |-> "Booting", stable |-> TRUE,
     time |-> 0]

\* the event times of the invocations that returned opportunities: the time
\* of the latest one and its distance from the one before, for one strategy
\* object
NoEmit == -1

NoEmissions == [last |-> NoEmit, gap |-> NoEmit]

EmitRecord(log, opps, ev) ==
    IF opps = <<>> THEN log
    ELSE [last |-> ev.time,
          gap |-> IF log.last = NoEmit THEN NoEmit ELSE ev.time - log.last]

-----------------------------------------------------------------------------
(* A strategy driven on its own: one strategy object from the factory and  *)
(* one shared state, either fresh (AppState::new, as in main) or forced to *)
(* Trading as the backtester does before its loop, fed events with         *)
(* non-decreasing event times.                                             *)

MaxStratEvents == 10
EventTimeStep == 6000
EventPrice == 100

Hosts == {"live", "backtest"}

StratInit0(kind, host) ==
    /\ now = 0
    /\ strategy = NewStrategy(kind)
    /\ sm = IF host = "backtest"
            THEN transition_to(StateMachineNew(0), "Trading", 0)
            ELSE StateMachineNew(0)
    /\ opportunities = <<>>
    /\ lastCall = NoCall
    /\ emitLog = NoEmissions
    /\ hHost = host
    /\ hCount = 0
    /\ hTime = 0

AppIdle == StratInit0("PaperTrader", "idle")

\* one event is handed to the handler for its kind; the backtester's loop
\* only calls process_trade
StratProcess(kind, dt, ind, book_ok) ==
    /\ hHost \in Hosts
    /\ hCount < MaxStratEvents
    /\ hHost = "backtest" => kind = "Trade"
    /\ LET ev == [kind |-> kind, id |-> hCount + 1, time |-> hTime + dt,
                  price |-> EventPrice, book_ok |-> book_ok]
           r == process_event(strategy, sm, ev, now, ind)
       IN  /\ strategy' = r.strategy
           /\ sm' = r.sm
           /\ opportunities' = r.opps
           /\ lastCall' = CallRecord(strategy, sm, ev, now)
           /\ emitLog' = EmitRecord(emitLog, r.opps, ev)
           /\ hTime' = ev.time
    /\ hCount' = hCount + 1
    /\ UNCHANGED <<now, hHost>>
    /\ UNCHANGED notApp

\* d seconds of wall-clock time pass
Tick(d) ==
    /\ now < MaxNow
    /\ now' = now + d
    /\ UNCHANGED <<sm, strategy, opportunities, lastCall, emitLog, harnessVars>>
    /\ UNCHANGED notApp

StratNext ==
    \/ \E kind \in EventKinds, dt \in {0, EventTimeStep}, ind \in Indicators,
          book_ok \in BOOLEAN : StratProcess(kind, dt, ind, book_ok)
    \/ Tick(StableSeconds + 1)

-----------------------------------------------------------------------------
(* The data filter (market_data/filter.rs).                                *)

DataFilterNew ==
    [last_trade_id |-> 0, last_agg_trade_id |-> 0, last_timestamp |-> 0,
     last_price |-> NoPrice, total_received |-> 0, duplicate_count |-> 0,
     out_of_order_count |-> 0, outlier_count |-> 0]

\* (price - lp).abs() / lp > 0.05 in f64: a division by lp = 0 gives
\* infinity (greater) for price # 0 and NaN (not greater) for price = 0
IsOutlier(price, lp) ==
    IF lp = 0 THEN price # 0 ELSE 100 * Abs(price - lp) > 5 * lp

\* filter_trade whose duplicate arm does not count the event
filter_trade_uncounted(f, ev) ==
    IF ev.id <= f.last_trade_id /\ f.last_trade_id # 0
    THEN [ok |-> FALSE, filter |-> f]
    ELSE LET f1 == [f EXCEPT !.last_trade_id = ev.id] IN
         IF ev.time < f1.last_timestamp /\ f1.last_timestamp # 0
         THEN [ok |-> FALSE, filter |-> [f1 EXCEPT !.out_of_order_count = @ + 1]]
         ELSE LET f2 == [f1 EXCEPT !.last_timestamp = ev.time] IN
              IF f2.last_price # NoPrice /\ IsOutlier(ev.price, f2.last_price)
              THEN [ok |-> FALSE, filter |-> [f2 EXCEPT !.outlier_count = @ + 1]]
              ELSE [ok |-> TRUE, filter |-> [f2 EXCEPT !.last_price = ev.price]]

\* filter_trade whose duplicate check does not except last_trade_id = 0
filter_trade_strict(f, ev) ==
    IF ev.id <= f.last_trade_id
    THEN [ok |-> FALSE, filter |-> [f EXCEPT !.duplicate_count = @ + 1]]
    ELSE LET f1 == [f EXCEPT !.last_trade_id = ev.id] IN
         IF ev.time < f1.last_timestamp /\ f1.last_timestamp # 0
         THEN [ok |-> FALSE, filter |-> [f1 EXCEPT !.out_of_order_count = @ + 1]]
         ELSE LET f2 == [f1 EXCEPT !.last_timestamp = ev.time] IN
              IF f2.last_price # NoPrice /\ IsOutlier(ev.price, f2.last_price)
              THEN [ok |-> FALSE, filter |-> [f2 EXCEPT !.outlier_count = @ + 1]]
              ELSE [ok |-> TRUE, filter |-> [f2 EXCEPT !.last_price = ev.price]]

filter_trade(f, ev) ==
    IF ev.id <= f.last_trade_id /\ f.last_trade_id # 0
    THEN [ok |-> FALSE, filter |-> [f EXCEPT !.duplicate_count = @ + 1]]
    ELSE LET f1 == [f EXCEPT !.last_trade_id = ev.id] IN
         IF ev.time < f1.last_timestamp /\ f1.last_timestamp # 0
         THEN [ok |-> FALSE, filter |-> [f1 EXCEPT !.out_of_order_count = @ + 1]]
         ELSE LET f2 == [f1 EXCEPT !.last_timestamp = ev.time] IN
              IF f2.last_price # NoPrice /\ IsOutlier(ev.price, f2.last_price)
              THEN [ok |-> FALSE, filter |-> [f2 EXCEPT !.outlier_count = @ + 1]]
              ELSE [ok |-> TRUE, filter |-> [f2 EXCEPT !.last_price = ev.price]]

filter_agg_trade(f, ev) ==
    IF ev.id <= f.last_agg_trade_id /\ f.last_agg_trade_id # 0
    THEN [ok |-> FALSE, filter |-> [f EXCEPT !.duplicate_count = @ + 1]]
    ELSE LET f1 == [f EXCEPT !.last_agg_trade_id = ev.id] IN
         IF ev.time < f1.last_timestamp /\ f1.last_timestamp # 0
         THEN [ok |-> FALSE, filter |-> [f1 EXCEPT !.out_of_order_count = @ + 1]]
         ELSE LET f2 == [f1 EXCEPT !.last_timestamp = ev.time] IN
              IF f2.last_price # NoPrice /\ IsOutlier(ev.price, f2.last_price)
              THEN [ok |-> FALSE, filter |-> [f2 EXCEPT !.outlier_count = @ + 1]]
              ELSE [ok |-> TRUE, filter |-> [f2 EXCEPT !.last_price = ev.price]]

should_process(f, ev) ==
    LET f0 == [f EXCEPT !.total_received = @ + 1] IN
    CASE ev.kind = "Trade" -> filter_trade(f0, ev)
      [] ev.kind = "AggrTrade" -> filter_agg_trade(f0, ev)
      [] OTHER -> [ok |-> TRUE, filter |-> f0]

\* get_quality_score, as the exact ratio <<good, total>> (100.0 is <<1, 1>>)
get_quality_score(f) ==
    IF f.total_received = 0 THEN <<1, 1>>
    ELSE <<f.total_received
             - (f.duplicate_count + f.out_of_order_count + f.outlier_count),
           f.total_received>>

-----------------------------------------------------------------------------
(* A DataFilter called on its own: should_process on any sequence of       *)
(* trade, aggregated-trade and order-book events.                          *)

MaxFilterCalls == 3

FilterIds == {0, 100, 101}
FilterTimes == {10, 20}
FilterPrices == {100, 110}

FilterEvents ==
    [kind : {"Trade", "AggrTrade"}, id : FilterIds, time : FilterTimes,
     price : FilterPrices]
    \cup {[kind |-> "OrderBook", id |-> 0, time |-> 0, price |-> 0]}

NoEvent == [kind |-> "none", id |-> 0, time |-> 0, price |-> 0]

FilterInit0 ==
    /\ flt = DataFilterNew
    /\ fltBefore = DataFilterNew
    /\ fltEvent = NoEvent
    /\ fltOk = TRUE
    /\ fltCalls = 0
    /\ fltTrades = 0

FilterIdle == FilterInit0

FilterCall(ev) ==
    /\ fltCalls < MaxFilterCalls
    /\ LET r == should_process(flt, ev) IN
       /\ flt' = r.filter
       /\ fltOk' = r.ok
    /\ fltBefore' = flt
    /\ fltEvent' = ev
    /\ fltCalls' = fltCalls + 1
    /\ fltTrades' = fltTrades + (IF ev.kind = "Trade" THEN 1 ELSE 0)
    /\ UNCHANGED notFilter

FilterNext == \E ev \in FilterEvents : FilterCall(ev)

-----------------------------------------------------------------------------
(* The risk manager (strategy/risk.rs), scores in hundredths.              *)

\* the RiskReport; leverage_risk in hundredths, recommended_max_size in
\* 1e-6 BTC
risk_report(opps) ==
    LET total_risk == IF Len(opps) > 5 THEN 80 ELSE 30 IN
    [total_risk |-> total_risk, leverage_risk |-> 10,
     drawdown_warning |-> total_risk > 70, recommended_max_size |-> 5000]

\* analyze_opportunities without the drawdown adjustment
analyze_opportunities_calm(opps) ==
    [k \in 1..Len(opps) |->
        [opps[k] EXCEPT !.risk_score =
            IF opps[k].score > 80 THEN (opps[k].risk_score * 8) \div 10
            ELSE opps[k].risk_score]]

analyze_opportunities(opps) ==
    LET total_risk == IF Len(opps) > 5 THEN 80 ELSE 30
        drawdown_warning == total_risk > 70
        adjust(o) ==
            LET r1 == IF o.score > 80 THEN (o.risk_score * 8) \div 10 ELSE o.risk_score
                r2 == IF drawdown_warning THEN (r1 * 15) \div 10 ELSE r1
            IN  [o EXCEPT !.risk_score = r2]
    IN  [k \in 1..Len(opps) |-> adjust(opps[k])]

\* select_best_trade with the threshold included (risk_score <= 0.5)
select_best_trade_inclusive(opps) ==
    LET ok == {k \in 1..Len(opps) : opps[k].risk_score <= 50} IN
    IF ok = {} THEN 0
    ELSE CHOOSE k \in ok :
            \A j \in ok : opps[j].score < opps[k].score
                          \/ (opps[j].score = opps[k].score /\ j <= k)

\* filter(risk_score < 0.5).max_by(score): Iterator::max_by returns the last
\* of several equally maximal elements. 0 stands for None.
select_best_trade(opps) ==
    LET ok == {k \in 1..Len(opps) : opps[k].risk_score < 50} IN
    IF ok = {} THEN 0
    ELSE CHOOSE k \in ok :
            \A j \in ok : opps[j].score < opps[k].score
                          \/ (opps[j].score = opps[k].score /\ j <= k)

-----------------------------------------------------------------------------
(* The risk manager called on its own: analyze_opportunities on a list of  *)
(* opportunities whose score and risk_score lie in [0, 1], then            *)
(* select_best_trade on the adjusted list (as main does) or on the list    *)
(* as given.                                                               *)

MaxOpps == 6

\* score and risk_score of the opportunities a caller may pass, hundredths
OppChoices ==
    {[score |-> 90, risk_score |-> 40], [score |-> 90, risk_score |-> 60],
     [score |-> 65, risk_score |-> 50], [score |-> 65, risk_score |-> 90]}

OppLists == UNION {[1..n -> OppChoices] : n \in 0..MaxOpps}

\* the k-th opportunity of a list
OppAt(c, k) ==
    Opp("opp", k, IF c.score > 80 THEN "Buy" ELSE "Sell", EventPrice * 1000, 1000,
        c.score, c.risk_score, k)

NoReport ==
    [total_risk |-> 0, leverage_risk |-> 0, drawdown_warning |-> FALSE,
     recommended_max_size |-> 0]

RiskInit0(pc, choices) ==
    /\ rkPc = pc
    /\ rkInput = [k \in 1..Len(choices) |-> OppAt(choices[k], k)]
    /\ rkProcessed = <<>>
    /\ rkReport = NoReport
    /\ rkArg = <<>>
    /\ rkBest = 0

RiskIdle == RiskInit0("idle", <<>>)

RiskAnalyze ==
    /\ rkPc = "input"
    /\ rkProcessed' = analyze_opportunities(rkInput)
    /\ rkReport' = risk_report(rkInput)
    /\ rkPc' = "analyzed"
    /\ UNCHANGED <<rkInput, rkArg, rkBest>>
    /\ UNCHANGED notRisk

\* select_best_trade on the adjusted list
RiskSelect ==
    /\ rkPc = "analyzed"
    /\ rkArg' = rkProcessed
    /\ rkBest' = select_best_trade(rkProcessed)
    /\ rkPc' = "selected"
    /\ UNCHANGED <<rkInput, rkProcessed, rkReport>>
    /\ UNCHANGED notRisk

\* select_best_trade on the list as given
RiskSelectDirect ==
    /\ rkPc = "input"
    /\ rkArg' = rkInput
    /\ rkBest' = select_best_trade(rkInput)
    /\ rkPc' = "selected"
    /\ UNCHANGED <<rkInput, rkProcessed, rkReport>>
    /\ UNCHANGED notRisk

RiskNext == RiskAnalyze \/ RiskSelect \/ RiskSelectDirect

-----------------------------------------------------------------------------
(* The ingest source, the market-event channel and the coordinator loop    *)
(* (main.rs, market_data/websocket.rs, market_data/backtest.rs).           *)
(*                                                                         *)
(* The source produces the events 1, 2, 3, ... of a fixed stream; an event *)
(* in the channel is represented by its number in the stream.              *)

\* mpsc::channel(100)
ChannelCapacity == 100

MaxStreamEvents == 102
MaxCoordEvents == 5
UnixAtStart == 100

\* seconds between two portfolio snapshots
SnapshotSeconds == 5

\* snapshots kept in portfolio_history
MaxPortfolioHistory == 500

Sources == {"websocket", "backtest"}

\* The websocket stream interleaves its three subscriptions and now and then
\* repeats an id, delivers an event late or carries an outlier price; the
\* backtest stream is the stored trades in order.
StreamEvent(source, n) ==
    IF source = "backtest"
    THEN [kind |-> "Trade", id |-> n, time |-> 10 * n, price |-> EventPrice,
          book_ok |-> TRUE]
    ELSE [kind |-> CASE n % 3 = 1 -> "Trade" [] n % 3 = 2 -> "AggrTrade"
                     [] OTHER -> "OrderBook",
          id |-> IF n % 7 = 0 THEN n - 3 ELSE n,
          time |-> IF n % 11 = 0 THEN 10 * (n - 2) ELSE 10 * n,
          price |-> IF n % 13 = 0 THEN EventPrice + (EventPrice \div 5) ELSE EventPrice,
          book_ok |-> TRUE]

DashboardNames == {"PaperTrader", "MeanReversion", "GridTrading"}

CoordInit0(source, budget) ==
    /\ srcKind = source
    /\ srcBudget = budget
    /\ srcNext = 1
    /\ prodPc = "ready"
    /\ chan = <<>>
    /\ cpc = "recv"
    /\ cev = 0
    /\ data_filter = DataFilterNew
    /\ event_count = 0
    /\ current_name = "PaperTrader"
    /\ is_trading_read = FALSE
    /\ now_ts = 0
    /\ inHandler = 0
    /\ strategy_name = "PaperTrader"
    /\ is_trading = FALSE
    /\ total_trades = 0
    /\ current_opportunities = <<>>
    /\ data_quality_score = <<1, 1>>
    /\ last_portfolio_snapshot_ts = 0
    /\ portfolio_history = <<>>
    /\ pendingExec = 0
    /\ realized_updates = 0
    /\ deliveredLog = <<>>
    /\ rejectedLog = <<>>
    /\ handedLog = <<>>
    /\ spawnLog = <<>>
    /\ swapsSinceChange = 0

CoordIdle == CoordInit0("none", 0)

\* (mutant) a send that does not wait for room in the channel
ProduceWithoutBlocking ==
    /\ prodPc = "ready"
    /\ srcNext <= srcBudget
    /\ chan' = Append(chan, srcNext)
    /\ srcNext' = srcNext + 1
    /\ UNCHANGED <<srcKind, srcBudget, prodPc, loopVars, sharedVars, logVars>>
    /\ UNCHANGED <<appVars, harnessVars>>
    /\ UNCHANGED notCoord

\* blocking_send / send().await of the next event: it is queued if the
\* channel has room, otherwise the producer parks holding the event.
Produce ==
    /\ prodPc = "ready"
    /\ srcNext <= srcBudget
    /\ IF Len(chan) < ChannelCapacity
       THEN /\ chan' = Append(chan, srcNext)
            /\ srcNext' = srcNext + 1
            /\ UNCHANGED prodPc
       ELSE /\ prodPc' = "blocked"
            /\ UNCHANGED <<chan, srcNext>>
    /\ UNCHANGED <<srcKind, srcBudget, loopVars, sharedVars, logVars>>
    /\ UNCHANGED <<appVars, harnessVars>>
    /\ UNCHANGED notCoord

\* a parked producer is woken once the channel has room and queues its event
ProducerResume ==
    /\ prodPc = "blocked"
    /\ Len(chan) < ChannelCapacity
    /\ chan' = Append(chan, srcNext)
    /\ srcNext' = srcNext + 1
    /\ prodPc' = "ready"
    /\ UNCHANGED <<srcKind, srcBudget, loopVars, sharedVars, logVars>>
    /\ UNCHANGED <<appVars, harnessVars>>
    /\ UNCHANGED notCoord

Event(n) == StreamEvent(srcKind, n)

unix_now == UnixAtStart + now

\* (mutant) a receive that takes the newest event of the channel
CoordRecvNewest ==
    /\ cpc = "recv"
    /\ chan # <<>>
    /\ LET n == chan[Len(chan)]
           r == should_process(data_filter, Event(n))
       IN  /\ chan' = SubSeq(chan, 1, Len(chan) - 1)
           /\ deliveredLog' = Append(deliveredLog, n)
           /\ data_filter' = r.filter
           /\ IF r.ok
              THEN /\ cev' = n
                   /\ cpc' = "swap"
                   /\ data_quality_score' =
                         IF event_count % 100 = 0 THEN get_quality_score(r.filter)
                         ELSE data_quality_score
                   /\ UNCHANGED rejectedLog
              ELSE /\ data_quality_score' = get_quality_score(r.filter)
                   /\ rejectedLog' = Append(rejectedLog, n)
                   /\ UNCHANGED <<cev, cpc>>
    /\ UNCHANGED <<srcVars, event_count, current_name, is_trading_read, now_ts, inHandler,
                   strategy_name, is_trading, total_trades, current_opportunities,
                   last_portfolio_snapshot_ts, portfolio_history, pendingExec,
                   realized_updates, handedLog, spawnLog, swapsSinceChange>>
    /\ UNCHANGED <<appVars, harnessVars>>
    /\ UNCHANGED notCoord

\* rx.recv() and the data-quality check: a rejected event only updates the
\* quality score and the loop continues with the next event.
CoordRecv ==
    /\ cpc = "recv"
    /\ chan # <<>>
    /\ LET n == Head(chan)
           r == should_process(data_filter, Event(n))
       IN  /\ chan' = Tail(chan)
           /\ deliveredLog' = Append(deliveredLog, n)
           /\ data_filter' = r.filter
           /\ IF r.ok
              THEN /\ cev' = n
                   /\ cpc' = "swap"
                   /\ data_quality_score' =
                         IF event_count % 100 = 0 THEN get_quality_score(r.filter)
                         ELSE data_quality_score
                   /\ UNCHANGED rejectedLog
              ELSE /\ data_quality_score' = get_quality_score(r.filter)
                   /\ rejectedLog' = Append(rejectedLog, n)
                   /\ UNCHANGED <<cev, cpc>>
    /\ UNCHANGED <<srcVars, event_count, current_name, is_trading_read, now_ts, inHandler,
                   strategy_name, is_trading, total_trades, current_opportunities,
                   last_portfolio_snapshot_ts, portfolio_history, pendingExec,
                   realized_updates, handedLog, spawnLog, swapsSinceChange>>
    /\ UNCHANGED <<appVars, harnessVars>>
    /\ UNCHANGED notCoord

\* the strategy object main builds for a name read from shared state
SwapTarget(name) ==
    IF name = "MeanReversion" THEN NewStrategy("MeanReversion")
    ELSE NewStrategy("PaperTrader")

\* the strategy-change check
CoordSwap ==
    /\ cpc = "swap"
    /\ current_name' = strategy_name
    /\ IF StrategyName(strategy) # strategy_name
       THEN /\ strategy' = SwapTarget(strategy_name)
            /\ emitLog' = NoEmissions
            /\ swapsSinceChange' = swapsSinceChange + 1
       ELSE UNCHANGED <<strategy, emitLog, swapsSinceChange>>
    /\ event_count' = event_count + 1
    /\ cpc' = "dispatch"
    /\ UNCHANGED <<srcVars, chan, cev, data_filter, is_trading_read, now_ts, inHandler,
                   sharedVars, deliveredLog, rejectedLog, handedLog,
                   spawnLog>>
    /\ UNCHANGED <<sm, now, opportunities, lastCall, harnessVars>>
    /\ UNCHANGED notCoord

\* the handler for the event's kind is called on the local strategy
CoordDispatchBegin ==
    /\ cpc = "dispatch"
    /\ IF HandlerOf(Event(cev)) # "none"
       THEN /\ inHandler' = inHandler + 1
            /\ handedLog' = Append(handedLog, cev)
       ELSE UNCHANGED <<inHandler, handedLog>>
    /\ cpc' = "handler"
    /\ UNCHANGED <<srcVars, chan, cev, data_filter, event_count, current_name,
                   is_trading_read, now_ts, sharedVars, deliveredLog,
                   rejectedLog, spawnLog, swapsSinceChange>>
    /\ UNCHANGED <<appVars, harnessVars>>
    /\ UNCHANGED notCoord

\* the handler returns its opportunities (an event without a handler yields
\* the empty list)
CoordDispatchEnd(ind) ==
    /\ cpc = "handler"
    /\ LET ev == Event(cev) IN
       IF HandlerOf(ev) # "none"
       THEN LET r == process_event(strategy, sm, ev, now, ind) IN
            /\ strategy' = r.strategy
            /\ sm' = r.sm
            /\ opportunities' = r.opps
            /\ lastCall' = CallRecord(strategy, sm, ev, now)
            /\ emitLog' = EmitRecord(emitLog, r.opps, ev)
            /\ inHandler' = inHandler - 1
       ELSE /\ opportunities' = <<>>
            /\ UNCHANGED <<strategy, sm, lastCall, emitLog, inHandler>>
    /\ cpc' = "snapshot"
    /\ UNCHANGED <<srcVars, chan, cev, data_filter, event_count, current_name,
                   is_trading_read, now_ts, sharedVars, logVars>>
    /\ UNCHANGED <<now, harnessVars>>
    /\ UNCHANGED notCoord

\* AppState::push_portfolio_snapshot: the timestamp is the clock at the push
push_portfolio_snapshot(history, clock) ==
    LET pushed == Append(history, clock) IN
    IF Len(pushed) > MaxPortfolioHistory THEN Tail(pushed) ELSE pushed

\* the snapshot block reads the clock into now_ts and, under the read lock,
\* compares it with last_portfolio_snapshot_ts
CoordSnapshotCheck ==
    /\ cpc = "snapshot"
    /\ IF unix_now - last_portfolio_snapshot_ts >= SnapshotSeconds
       THEN /\ now_ts' = unix_now
            /\ cpc' = "push"
       ELSE /\ cpc' = "read"
            /\ UNCHANGED now_ts
    /\ UNCHANGED <<srcVars, chan, cev, data_filter, event_count, current_name,
                   is_trading_read, inHandler, sharedVars, logVars>>
    /\ UNCHANGED <<appVars, harnessVars>>
    /\ UNCHANGED notCoord

\* with the balances fetched, under the write lock: the snapshot is pushed
\* and last_portfolio_snapshot_ts becomes now_ts
CoordSnapshotPush ==
    /\ cpc = "push"
    /\ portfolio_history' = push_portfolio_snapshot(portfolio_history, unix_now)
    /\ last_portfolio_snapshot_ts' = now_ts
    /\ now_ts' = 0
    /\ cpc' = "read"
    /\ UNCHANGED <<srcVars, chan, cev, data_filter, event_count, current_name,
                   is_trading_read, inHandler, strategy_name, is_trading,
                   total_trades, current_opportunities, data_quality_score,
                   realized_updates, pendingExec, logVars>>
    /\ UNCHANGED <<appVars, harnessVars>>
    /\ UNCHANGED notCoord

\* the read of shared is_trading
CoordGateRead ==
    /\ cpc = "read"
    /\ is_trading_read' = is_trading
    /\ cpc' = "gate"
    /\ UNCHANGED <<srcVars, chan, cev, data_filter, event_count, current_name,
                   now_ts, inHandler, sharedVars, logVars>>
    /\ UNCHANGED <<appVars, harnessVars>>
    /\ UNCHANGED notCoord

\* the gate on the value read, and under the write lock: risk analysis,
\* selection, total_trades and the spawn of executor.execute
CoordGate ==
    /\ cpc = "gate"
    /\ IF opportunities # <<>> /\ is_trading_read
       THEN LET processed == analyze_opportunities(opportunities)
                best == select_best_trade(processed)
            IN  /\ current_opportunities' = processed
                /\ IF best # 0
                   THEN /\ total_trades' = total_trades + 1
                        /\ pendingExec' = pendingExec + 1
                        /\ spawnLog' = Append(spawnLog,
                              [n |-> cev, signal |-> processed[best],
                               is_trading |-> is_trading])
                   ELSE UNCHANGED <<total_trades, pendingExec, spawnLog>>
       ELSE UNCHANGED <<current_opportunities, total_trades, pendingExec, spawnLog>>
    /\ cpc' = "recv"
    /\ UNCHANGED <<srcVars, chan, cev, data_filter, event_count, current_name,
                   is_trading_read, now_ts, inHandler, strategy_name, is_trading,
                   data_quality_score, last_portfolio_snapshot_ts,
                   portfolio_history, realized_updates, deliveredLog, rejectedLog,
                   handedLog, swapsSinceChange>>
    /\ UNCHANGED <<appVars, harnessVars>>
    /\ UNCHANGED notCoord

\* (mutant) a spawned execution that takes its trade back when it fails
ExecTaskDoneRollback(ok) ==
    /\ pendingExec > 0
    /\ pendingExec' = pendingExec - 1
    /\ realized_updates' = IF ok THEN realized_updates + 1 ELSE realized_updates
    /\ total_trades' = IF ok THEN total_trades ELSE total_trades - 1
    /\ UNCHANGED <<srcVars, chan, loopVars, strategy_name, is_trading,
                   current_opportunities, data_quality_score,
                   last_portfolio_snapshot_ts, portfolio_history, logVars>>
    /\ UNCHANGED <<appVars, harnessVars>>
    /\ UNCHANGED notCoord

\* a spawned execution finishes; Ok(pnl) is added to realized_pnl
ExecTaskDone(ok) ==
    /\ pendingExec > 0
    /\ pendingExec' = pendingExec - 1
    /\ realized_updates' = IF ok THEN realized_updates + 1 ELSE realized_updates
    /\ UNCHANGED <<srcVars, chan, loopVars, strategy_name, is_trading, total_trades,
                   current_opportunities, data_quality_score,
                   last_portfolio_snapshot_ts, portfolio_history, logVars>>
    /\ UNCHANGED <<appVars, harnessVars>>
    /\ UNCHANGED notCoord

\* dashboard: POST /api/select_strategy stores whatever name it is given
SelectStrategy(name) ==
    /\ strategy_name' = name
    /\ swapsSinceChange' = IF name # strategy_name THEN 0 ELSE swapsSinceChange
    /\ UNCHANGED <<srcVars, chan, loopVars, is_trading, total_trades,
                   current_opportunities, data_quality_score,
                   last_portfolio_snapshot_ts, portfolio_history, realized_updates,
                   pendingExec, deliveredLog, rejectedLog, handedLog, spawnLog>>
    /\ UNCHANGED <<appVars, harnessVars>>
    /\ UNCHANGED notCoord

\* dashboard: POST /api/start_trading
StartTrading ==
    /\ is_trading' = TRUE
    /\ UNCHANGED <<srcVars, chan, loopVars, strategy_name, total_trades,
                   current_opportunities, data_quality_score,
                   last_portfolio_snapshot_ts, portfolio_history, realized_updates,
                   pendingExec, logVars>>
    /\ UNCHANGED <<appVars, harnessVars>>
    /\ UNCHANGED notCoord

\* dashboard: POST /api/stop_trading
StopTrading ==
    /\ is_trading' = FALSE
    /\ UNCHANGED <<srcVars, chan, loopVars, strategy_name, total_trades,
                   current_opportunities, data_quality_score,
                   last_portfolio_snapshot_ts, portfolio_history, realized_updates,
                   pendingExec, logVars>>
    /\ UNCHANGED <<appVars, harnessVars>>
    /\ UNCHANGED notCoord

ChannelNext ==
    \/ Produce
    \/ ProducerResume
    \/ CoordRecv
    \/ CoordSwap
    \/ CoordDispatchBegin
    \/ \E ind \in Indicators : CoordDispatchEnd(ind)
    \/ CoordSnapshotCheck
    \/ CoordSnapshotPush
    \/ CoordGateRead
    \/ CoordGate

\* MaxCoordEvents events never fill the channel, so no send parks here
CoordNext ==
    \/ Produce
    \/ CoordRecv
    \/ CoordSwap
    \/ CoordDispatchBegin
    \/ \E ind \in Indicators : CoordDispatchEnd(ind)
    \/ CoordSnapshotCheck
    \/ CoordSnapshotPush
    \/ CoordGateRead
    \/ CoordGate
    \/ \E ok \in BOOLEAN : ExecTaskDone(ok)
    \/ \E name \in DashboardNames : SelectStrategy(name)
    \/ StartTrading
    \/ StopTrading
    \/ Tick(StableSeconds + 1)

-----------------------------------------------------------------------------
(* The downloader and the table together: what get_agg_trades returns for  *)
(* a chunk is handed to save_aggr_trades_bulk as one batch. Every exchange *)
(* call succeeds here. A window's start is inclusive; whether a trade      *)
(* exactly at the window's end is returned is left open.                   *)

\* the aggregate trades the exchange has for the symbol: id and time
ExchangeTrades ==
    {[id |-> 1, time |-> 5], [id |-> 2, time |-> Hour],
     [id |-> 3, time |-> Hour + 5], [id |-> 4, time |-> 2 * Hour - 1]}

TimeOf(id) == (CHOOSE t \in ExchangeTrades : t.id = id).time

RECURSIVE IdsInOrder(_)
IdsInOrder(ids) ==
    IF ids = {} THEN <<>>
    ELSE LET first == CHOOSE x \in ids : \A y \in ids : x <= y IN
         <<first>> \o IdsInOrder(ids \ {first})

\* get_agg_trades(symbol, None, Some(cs), Some(ce), Some(1000))
get_agg_trades(cs, ce, end_inclusive) ==
    IdsInOrder({t.id : t \in {u \in ExchangeTrades :
                   /\ cs <= u.time
                   /\ u.time < ce \/ (end_inclusive /\ u.time = ce)}})

StoredTimes(rows) == {TimeOf(k[2]) : k \in rows}

\* repository::get_data_range: MIN(event_time), MAX(event_time)
get_data_range(rows) ==
    IF rows = {} THEN Range(NoTime, NoTime)
    ELSE Range(CHOOSE t \in StoredTimes(rows) : \A u \in StoredTimes(rows) : t <= u,
               CHOOSE t \in StoredTimes(rows) : \A u \in StoredTimes(rows) : t >= u)

\* what the table holds before the download
FlStores == {{}, {<<"spot", 1>>}, {<<"spot", 2>>}, {<<"spot", 1>>, <<"spot", 2>>}}

FlInit0(pc, rows, plan) ==
    /\ flPc = pc
    /\ flStore = rows
    /\ flPlan = plan
    /\ flTasks = <<>>
    /\ flReturned = {}

FlIdle == FlInit0("idle", {}, <<>>)

\* ensure_data_range(symbol, Spot, 0, 2h)
FlEnsure ==
    /\ flPc = "ensure"
    /\ LET db == get_data_range(flStore) IN
       flPlan' = ensure_data_range(db.start, db.end, 0, 2 * Hour)
    /\ flPc' = "call"
    /\ UNCHANGED <<flStore, flTasks, flReturned>>
    /\ UNCHANGED notFl

\* the next fetch_and_save_range_public call starts, or the caller returns
FlFetchBegin ==
    /\ flPc = "call"
    /\ IF flPlan = <<>>
       THEN /\ flPc' = "returned"
            /\ UNCHANGED <<flPlan, flTasks>>
       ELSE LET chunks == chunks_of(Head(flPlan).start, Head(flPlan).end) IN
            /\ flTasks' = [i \in 1..Len(chunks) |->
                              [pc |-> "queued", range |-> chunks[i], batch |-> <<>>]]
            /\ flPlan' = Tail(flPlan)
            /\ flPc' = "fetching"
    /\ UNCHANGED <<flStore, flReturned>>
    /\ UNCHANGED notFl

\* a chunk's exchange call returns its trades
FlReply(i, end_inclusive) ==
    /\ flPc = "fetching"
    /\ i \in DOMAIN flTasks
    /\ flTasks[i].pc = "queued"
    /\ LET events == get_agg_trades(flTasks[i].range.start, flTasks[i].range.end,
                                    end_inclusive)
       IN  /\ flTasks' = [flTasks EXCEPT ![i].batch = events,
                                         ![i].pc = IF events = <<>> THEN "done"
                                                   ELSE "saving"]
           /\ flReturned' = flReturned \cup {events[k] : k \in DOMAIN events}
    /\ UNCHANGED <<flPc, flStore, flPlan>>
    /\ UNCHANGED notFl

\* the chunk's batch goes to save_aggr_trades_bulk
FlSave(i) ==
    /\ flPc = "fetching"
    /\ i \in DOMAIN flTasks
    /\ flTasks[i].pc = "saving"
    /\ flStore' = save_aggr_trades_bulk(flStore, flTasks[i].batch, "spot", "none").rows
    /\ flTasks' = [flTasks EXCEPT ![i].pc = "done"]
    /\ UNCHANGED <<flPc, flPlan, flReturned>>
    /\ UNCHANGED notFl

\* every chunk is done: fetch_and_save_range_public returns Ok(())
FlFetchReturn ==
    /\ flPc = "fetching"
    /\ \A i \in DOMAIN flTasks : flTasks[i].pc = "done"
    /\ flPc' = "call"
    /\ UNCHANGED <<flStore, flPlan, flTasks, flReturned>>
    /\ UNCHANGED notFl

FlNext ==
    \/ FlEnsure
    \/ FlFetchBegin
    \/ \E i \in 1..2, end_inclusive \in BOOLEAN : FlReply(i, end_inclusive)
    \/ \E i \in 1..2 : FlSave(i)
    \/ FlFetchReturn

-----------------------------------------------------------------------------
(* The locks of the paper-trading pipeline: the tokio RwLock around the    *)
(* shared state and the tokio Mutexes of sim_balances and sim_positions.   *)
(* Both hand the lock out in the order of arrival. A task is the sequence  *)
(* of the lock operations of its code.                                     *)

Locks == {"shared", "balances", "positions"}

LockTasks == {"coordinator", "execute", "get_status", "dashboard"}

Acq(lock, mode) == [op |-> "acquire", lock |-> lock, mode |-> mode]
Rel(lock) == [op |-> "release", lock |-> lock, mode |-> "none"]

\* (mutant) the spawned execution updates the shared state while it still
\* holds the ledger
LockProgramNested(task) ==
    CASE task = "coordinator" ->
            <<Acq("shared", "write"), Rel("shared"),
              Acq("shared", "read"), Rel("shared"),
              Acq("shared", "write"), Rel("shared"),
              Acq("shared", "read"), Rel("shared"),
              Acq("shared", "write"), Rel("shared"),
              Acq("shared", "read"), Rel("shared"),
              Acq("shared", "read"), Rel("shared"),
              Acq("shared", "write"), Acq("balances", "write"), Rel("balances"),
              Rel("shared"),
              Acq("shared", "write"), Rel("shared"),
              Acq("shared", "read"), Rel("shared"),
              Acq("shared", "write"), Rel("shared")>>
      [] task = "execute" ->
            <<Acq("balances", "write"), Acq("positions", "write"),
              Acq("shared", "write"), Rel("shared"),
              Rel("positions"), Rel("balances")>>
      [] task = "get_status" ->
            <<Acq("shared", "read"),
              Acq("balances", "write"), Rel("balances"),
              Acq("positions", "write"), Rel("positions"),
              Rel("shared")>>
      [] OTHER ->
            <<Acq("shared", "write"), Rel("shared")>>

\* the lock operations of one task, in program order:
\*   coordinator  one event: the quality score (write), the strategy name
\*                (read), the trade handler (write, read, write, read),
\*                the snapshot check (read), get_balances under the write
\*                lock, the push (write), the is_trading read, the gate
\*   execute      the spawned task: execute (balances, then positions),
\*                then realized_pnl under the write lock
\*   get_status   the read lock held across get_balances and get_positions
\*   dashboard    select_strategy / start_trading / stop_trading
LockProgram(task) ==
    CASE task = "coordinator" ->
            <<Acq("shared", "write"), Rel("shared"),
              Acq("shared", "read"), Rel("shared"),
              Acq("shared", "write"), Rel("shared"),
              Acq("shared", "read"), Rel("shared"),
              Acq("shared", "write"), Rel("shared"),
              Acq("shared", "read"), Rel("shared"),
              Acq("shared", "read"), Rel("shared"),
              Acq("shared", "write"), Acq("balances", "write"), Rel("balances"),
              Rel("shared"),
              Acq("shared", "write"), Rel("shared"),
              Acq("shared", "read"), Rel("shared"),
              Acq("shared", "write"), Rel("shared")>>
      [] task = "execute" ->
            <<Acq("balances", "write"), Acq("positions", "write"),
              Rel("positions"), Rel("balances"),
              Acq("shared", "write"), Rel("shared")>>
      [] task = "get_status" ->
            <<Acq("shared", "read"),
              Acq("balances", "write"), Rel("balances"),
              Acq("positions", "write"), Rel("positions"),
              Rel("shared")>>
      [] OTHER ->
            <<Acq("shared", "write"), Rel("shared")>>

LkFinished(task) == lkPc[task] > Len(LockProgram(task))

LkOp(task) == LockProgram(task)[lkPc[task]]

Queued(task) == \E l \in Locks : \E k \in DOMAIN lkQueue[l] : lkQueue[l][k].task = task

\* a request can be granted when nobody holds the lock, or readers hold it
\* and it is a read
Compatible(lock, mode) ==
    \/ lkHeld[lock] = {}
    \/ mode = "read" /\ \A h \in lkHeld[lock] : h.mode = "read"

LkInit0 ==
    /\ lkPc = [t \in LockTasks |-> 1]
    /\ lkHeld = [l \in Locks |-> {}]
    /\ lkQueue = [l \in Locks |-> <<>>]

LkIdle == LkInit0

\* lock().await / read().await / write().await: the task joins the queue
LkRequest(task) ==
    /\ ~LkFinished(task)
    /\ LkOp(task).op = "acquire"
    /\ ~Queued(task)
    /\ lkQueue' = [lkQueue EXCEPT ![LkOp(task).lock] =
                      Append(@, [task |-> task, mode |-> LkOp(task).mode])]
    /\ UNCHANGED <<lkPc, lkHeld>>
    /\ UNCHANGED notLk

\* the first task in a lock's queue gets the lock
LkGrant(lock) ==
    /\ lkQueue[lock] # <<>>
    /\ Compatible(lock, Head(lkQueue[lock]).mode)
    /\ lkHeld' = [lkHeld EXCEPT ![lock] = @ \cup {Head(lkQueue[lock])}]
    /\ lkQueue' = [lkQueue EXCEPT ![lock] = Tail(@)]
    /\ lkPc' = [lkPc EXCEPT ![Head(lkQueue[lock]).task] = @ + 1]
    /\ UNCHANGED notLk

\* a guard is dropped
LkRelease(task) ==
    /\ ~LkFinished(task)
    /\ LkOp(task).op = "release"
    /\ lkHeld' = [lkHeld EXCEPT ![LkOp(task).lock] =
                     {h \in @ : h.task # task}]
    /\ lkPc' = [lkPc EXCEPT ![task] = @ + 1]
    /\ UNCHANGED lkQueue
    /\ UNCHANGED notLk

\* a finished request handler or spawned task is followed by the next one
LkAgain(task) ==
    /\ LkFinished(task)
    /\ lkPc' = [lkPc EXCEPT ![task] = 1]
    /\ UNCHANGED <<lkHeld, lkQueue>>
    /\ UNCHANGED notLk

LkNext ==
    \/ \E task \in LockTasks : LkRequest(task)
    \/ \E lock \in Locks : LkGrant(lock)
    \/ \E task \in LockTasks : LkRelease(task)
    \/ \E task \in LockTasks : LkAgain(task)

-----------------------------------------------------------------------------
(* The executions the coordinator spawns (main.rs:246-259): one task per   *)
(* selected signal, each calling executor.execute. In paper mode execute   *)
(* applies the signal to the ledger under its mutexes; in live mode it     *)
(* asks the worker for the account and then sends the market order.        *)

MaxSelections == 3

OrdSignals == [side : {"Buy", "Sell"}, price : {60000}, quantity : {1}]

OrdInit0(mode) ==
    /\ ordMode = mode
    /\ ordSelected = <<>>
    /\ ordPc = <<>>
    /\ ordLedger = SimNew
    /\ ordQueue = <<>>
    /\ ordApplied = <<>>

OrdIdle == OrdInit0("paper")

\* the gate selects a signal and spawns its execution
OrdSelect(sig) ==
    /\ Len(ordSelected) < MaxSelections
    /\ ordSelected' = Append(ordSelected, sig)
    /\ ordPc' = Append(ordPc, "spawned")
    /\ UNCHANGED <<ordMode, ordLedger, ordQueue, ordApplied>>
    /\ UNCHANGED notOrd

\* paper: the task gets the ledger's mutexes and applies its signal
OrdApply(i) ==
    /\ ordMode = "paper"
    /\ ordPc[i] = "spawned"
    /\ LET r == sim_execute(ordLedger.balances, ordLedger.positions,
                            ordSelected[i]) IN
       ordLedger' = [balances |-> r.balances, positions |-> r.positions]
    /\ ordApplied' = Append(ordApplied, i)
    /\ ordPc' = [ordPc EXCEPT ![i] = "done"]
    /\ UNCHANGED <<ordMode, ordSelected, ordQueue>>
    /\ UNCHANGED notOrd

\* live: the task sends GetAccount and awaits the reply
OrdGetAccount(i) ==
    /\ ordMode = "live"
    /\ ordPc[i] = "spawned"
    /\ ordQueue' = Append(ordQueue, [task |-> i, cmd |-> "GetAccount"])
    /\ ordPc' = [ordPc EXCEPT ![i] = "account"]
    /\ UNCHANGED <<ordMode, ordSelected, ordLedger, ordApplied>>
    /\ UNCHANGED notOrd

\* live: the worker takes the first command of its queue and answers it
OrdWorker ==
    /\ ordQueue # <<>>
    /\ ordQueue' = Tail(ordQueue)
    /\ ordPc' = [ordPc EXCEPT ![Head(ordQueue).task] =
                    IF Head(ordQueue).cmd = "GetAccount" THEN "balances"
                    ELSE "done"]
    /\ UNCHANGED <<ordMode, ordSelected, ordLedger, ordApplied>>
    /\ UNCHANGED notOrd

\* live: the task has the balances and sends its market order
OrdMarketOrder(i) ==
    /\ ordPc[i] = "balances"
    /\ ordQueue' = Append(ordQueue, [task |-> i,
                    cmd |-> IF ordSelected[i].side = "Buy" THEN "MarketBuy"
                            ELSE "MarketSell"])
    /\ ordApplied' = Append(ordApplied, i)
    /\ ordPc' = [ordPc EXCEPT ![i] = "ordered"]
    /\ UNCHANGED <<ordMode, ordSelected, ordLedger>>
    /\ UNCHANGED notOrd

OrdNext ==
    \/ \E sig \in OrdSignals : OrdSelect(sig)
    \/ \E i \in DOMAIN ordPc : OrdApply(i)
    \/ \E i \in DOMAIN ordPc : OrdGetAccount(i)
    \/ OrdWorker
    \/ \E i \in DOMAIN ordPc : OrdMarketOrder(i)

-----------------------------------------------------------------------------
(* The chunk loop of fetch_and_save_range_public (downloader.rs:127-133)   *)
(* on unsigned machine words. The timestamps are u64; the model keeps the  *)
(* arithmetic and scales the width and the window down. An addition that   *)
(* overflows panics in a build with overflow checks and wraps in one       *)
(* without.                                                                *)

WordBits == 6

WordMax == 2 ^ WordBits - 1

Window == 5

CkInit0(build, start_ts, end_ts) ==
    /\ ckBuild = build
    /\ ckStart = start_ts
    /\ ckEnd = end_ts
    /\ ckChunkStart = start_ts
    /\ ckChunks = <<>>
    /\ ckPc = "loop"

CkIdle == CkInit0("debug", 0, 0)

\* one pass of the body: chunk_end = min(chunk_start + MAX_WINDOW_MS, end_ts)
CkIterate ==
    /\ ckPc = "loop"
    /\ ckChunkStart < ckEnd
    /\ Len(ckChunks) <= WordMax
    /\ LET sum == ckChunkStart + Window IN
       IF sum > WordMax /\ ckBuild = "debug"
       THEN /\ ckPc' = "panic"
            /\ UNCHANGED <<ckChunkStart, ckChunks>>
       ELSE LET chunk_end == Min2(sum % (WordMax + 1), ckEnd) IN
            /\ ckChunks' = Append(ckChunks, <<ckChunkStart, chunk_end>>)
            /\ ckChunkStart' = chunk_end
            /\ UNCHANGED ckPc
    /\ UNCHANGED <<ckBuild, ckStart, ckEnd>>
    /\ UNCHANGED notCk

\* the loop condition fails
CkExit ==
    /\ ckPc = "loop"
    /\ ~(ckChunkStart < ckEnd)
    /\ ckPc' = "done"
    /\ UNCHANGED <<ckBuild, ckStart, ckEnd, ckChunkStart, ckChunks>>
    /\ UNCHANGED notCk

CkNext == CkIterate \/ CkExit

-----------------------------------------------------------------------------
(* execute_isolated_backtest (web/mod.rs): one task per symbol loads the   *)
(* symbol's trades and spawns one task per strategy name. A run owns its   *)
(* executor, its shared state and its strategy; the progress events it     *)
(* sends on PROGRESS_TX are kept with the run. The strategy that trades    *)
(* here is BuyAndHold, whose quantity (0.1 BTC) is one lot of the          *)
(* simulation ledger.                                                      *)

MaxBtTrades == 12

\* fast_mode processes every tenth trade
FastSkip == 10
\* progress_interval = total / 10
ProgressParts == 10

BtSymbols == {"SPOT:BTCUSDT", "SPOT:ETHUSDT"}
BtStrategies == {"BuyAndHold", "NoSuchStrategy"}
BtRuns == BtSymbols \X BtStrategies

\* the price of a symbol's stored trades
BtPrice(symbol) == IF symbol = "SPOT:BTCUSDT" THEN 60000 ELSE 1000

\* the idx-th stored trade of a symbol
BtTrade(symbol, idx) ==
    [kind |-> "Trade", id |-> idx + 1, time |-> 10 * (idx + 1),
     price |-> BtPrice(symbol), book_ok |-> TRUE]

\* StrategyFactory::create_strategy
create_strategy(name) ==
    IF name \in StrategyKinds THEN NewStrategy(name) ELSE [kind |-> "none"]

\* the signal of an opportunity, in the units of the simulation ledger
SignalOf(opp) ==
    [side |-> opp.side, price |-> opp.price \div 1000,
     quantity |-> (opp.quantity * LotsPerBtc) \div 1000000]

BtLiveState == [state |-> "Booting", is_trading |-> FALSE, total_trades |-> 0]

BtRequested ==
    [pc |-> "requested", idx |-> 0, strategy |-> [kind |-> "none"],
     state |-> "Booting", is_trading |-> FALSE, executor |-> SimNew,
     total_trades |-> 0, realized_pnl |-> FracOf(0), events |-> <<>>]

\* the set-up of a run: ExecutionManager::new(true), AppState::new,
\* clear_all_data, transition_to(Trading), is_trading = true, and the
\* strategy from the factory (None ends the task)
bt_start(run, name) ==
    LET st == create_strategy(name) IN
    [run EXCEPT !.pc = IF st.kind = "none" THEN "none" ELSE "loop",
                !.strategy = st,
                !.executor = SimNew,
                !.state = transition_to(StateMachineNew(0), "Trading", 0).current_state,
                !.is_trading = TRUE]

\* (idx / total * 100.0) as u32
ProgressPct(idx, total) == (idx * 100) \div total

ProgressEvent(status, pct) == [status |-> status, progress_pct |-> pct]

RECURSIVE bt_execute_all(_, _, _)
\* the for opp in opps loop: fee, execute, total_trades, realized_pnl
bt_execute_all(run, opps, price) ==
    IF opps = <<>> THEN run
    ELSE LET sig == SignalOf(Head(opps))
             fee == IF sig.side \in {"Buy", "Sell"}
                    THEN (price * sig.quantity * MoneyPerLotUsd) \div FeeDivisor
                    ELSE 0
             r == sim_execute(run.executor.balances, run.executor.positions, sig)
         IN  bt_execute_all(
                 [run EXCEPT !.executor = [balances |-> r.balances,
                                           positions |-> r.positions],
                             !.total_trades = @ + 1,
                             !.realized_pnl = FracSub(FracAdd(@, r.pnl), FracOf(fee))],
                 Tail(opps), price)

\* one iteration of the trade loop, or the completed event after the last
bt_step(run, symbol, total, fast_mode) ==
    IF run.idx = total
    THEN [run EXCEPT !.pc = "done",
                     !.events = Append(@, ProgressEvent("completed", 100))]
    ELSE IF fast_mode /\ run.idx % FastSkip # 0
    THEN [run EXCEPT !.idx = @ + 1]
    ELSE LET progress_interval ==
                 IF total \div ProgressParts > 1 THEN total \div ProgressParts ELSE 1
             emitted ==
                 IF run.idx > 0 /\ run.idx % progress_interval = 0
                 THEN Append(run.events,
                             ProgressEvent("running", ProgressPct(run.idx, total)))
                 ELSE run.events
             ev == BtTrade(symbol, run.idx)
             r == BuyAndHold_process_trade(run.strategy,
                      [current_state |-> run.state], ev)
         IN  bt_execute_all(
                 [run EXCEPT !.idx = @ + 1, !.events = emitted,
                             !.strategy = r.strategy],
                 r.opps, ev.price)

BtInit0(req) ==
    /\ btReq = req
    /\ btRun = [r \in BtRuns |-> BtRequested]
    /\ btLive = BtLiveState

BtIdle == BtInit0([total |-> 0, fast_mode |-> FALSE])

\* the symbol task has loaded its trades; with none it returns, otherwise it
\* spawns one task per strategy name
BtSpawn(symbol) ==
    /\ \E name \in BtStrategies : btRun[<<symbol, name>>].pc = "requested"
    /\ btRun' = [r \in BtRuns |->
                    IF r[1] = symbol
                    THEN [btRun[r] EXCEPT !.pc = IF btReq.total = 0 THEN "skipped"
                                                 ELSE "spawned"]
                    ELSE btRun[r]]
    /\ UNCHANGED <<btReq, btLive>>
    /\ UNCHANGED notBt

\* the run's task starts
BtStart(r) ==
    /\ btRun[r].pc = "spawned"
    /\ btRun' = [btRun EXCEPT ![r] = bt_start(btRun[r], r[2])]
    /\ UNCHANGED <<btReq, btLive>>
    /\ UNCHANGED notBt

\* (mutant) every run works on the executor of the first run
BtStepShared(r) ==
    /\ btRun[r].pc = "loop"
    /\ LET owner == <<"SPOT:BTCUSDT", "BuyAndHold">>
           after == bt_step([btRun[r] EXCEPT !.executor = btRun[owner].executor],
                            r[1], btReq.total, btReq.fast_mode)
       IN  btRun' = [q \in BtRuns |->
                        IF q = r THEN after
                        ELSE IF q = owner
                        THEN [btRun[q] EXCEPT !.executor = after.executor]
                        ELSE btRun[q]]
    /\ UNCHANGED <<btReq, btLive>>
    /\ UNCHANGED notBt

\* the run's task handles its next trade, or finishes
BtStep(r) ==
    /\ btRun[r].pc = "loop"
    /\ btRun' = [btRun EXCEPT ![r] =
                    bt_step(btRun[r], r[1], btReq.total, btReq.fast_mode)]
    /\ UNCHANGED <<btReq, btLive>>
    /\ UNCHANGED notBt

BtNext ==
    \/ \E symbol \in BtSymbols : BtSpawn(symbol)
    \/ \E r \in BtRuns : BtStart(r)
    \/ \E r \in BtRuns : BtStep(r)

-----------------------------------------------------------------------------
(* Specifications. Each one runs one part of the program from its initial  *)
(* state and leaves the others idle.                                       *)

WorkerIdle ==
    /\ wkind = "spot"
    /\ cmdq = <<>>
    /\ sendersOpen = TRUE
    /\ wpc = "recv"
    /\ wcur = [id |-> 0, cmd |-> "none"]
    /\ wexit = "none"
    /\ oneshot = [i \in Ids |-> "unused"]
    /\ rxDropped = [i \in Ids |-> FALSE]
    /\ cstate = [i \in Ids |-> "none"]
    /\ cresult = [i \in Ids |-> "none"]
    /\ ccmd = [i \in Ids |-> "none"]
    /\ apiOk = [i \in Ids |-> "none"]
    /\ nextId = 1
    /\ enqLog = <<>>
    /\ deqLog = <<>>
    /\ callLog = <<>>
    /\ replyLog = <<>>

AuxIdle == SimIdle /\ DlIdle /\ DbIdle /\ BtIdle /\ FlIdle /\ LkIdle /\ OrdIdle /\ CkIdle

UnitIdle == RiskIdle /\ FilterIdle /\ MachineIdle /\ AuxIdle

WorkerSpecInit == WorkerInit /\ ExecIdle /\ AppIdle /\ CoordIdle /\ UnitIdle

SpecWorker == WorkerSpecInit /\ [][WorkerNext]_vars

\* the worker thread runs, every exchange call returns, and the runtime
\* resumes a wrapper whose reply has arrived or whose handle was dropped
SpecWorkerLive ==
    /\ WorkerSpecInit /\ [][WorkerNext]_vars
    /\ WF_vars(WorkerRecv)
    /\ WF_vars(\E ok \in BOOLEAN : WorkerComplete(ok))
    /\ \A i \in Ids : WF_vars(WrapperAwait(i))

ExecInit == WorkerIdle /\ ExecIdle /\ AppIdle /\ CoordIdle /\ UnitIdle

SpecExec == ExecInit /\ [][ExecNext]_vars

StratInit ==
    /\ WorkerIdle
    /\ ExecIdle
    /\ CoordIdle
    /\ UnitIdle
    /\ \E kind \in StrategyKinds, host \in Hosts : StratInit0(kind, host)

SpecStrat == StratInit /\ [][StratNext]_vars

\* main: PaperTrader, a fresh AppState, an empty channel and one source
LoopInit(source, budget) ==
    /\ WorkerIdle
    /\ ExecIdle
    /\ AppIdle
    /\ UnitIdle
    /\ CoordInit0(source, budget)

ChannelInit == \E source \in Sources : LoopInit(source, MaxStreamEvents)

SpecChannel == ChannelInit /\ [][ChannelNext]_vars

CoordInit == LoopInit("backtest", MaxCoordEvents)

SpecCoord == CoordInit /\ [][CoordNext]_vars

ProgIdle == WorkerIdle /\ ExecIdle /\ AppIdle /\ CoordIdle

RiskInit ==
    /\ ProgIdle
    /\ FilterIdle
    /\ MachineIdle
    /\ AuxIdle
    /\ \E choices \in OppLists : RiskInit0("input", choices)

SpecRisk == RiskInit /\ [][RiskNext]_vars

FilterInit == ProgIdle /\ RiskIdle /\ MachineIdle /\ AuxIdle /\ FilterInit0

SpecFilter == FilterInit /\ [][FilterNext]_vars

MachineInit == ProgIdle /\ RiskIdle /\ FilterIdle /\ AuxIdle /\ MachineInit0

MachineNext ==
    \/ \E s \in States : MachineTransition(s)
    \/ MachineIsStable
    \/ Tick(1)

SpecMachine == MachineInit /\ [][MachineNext]_vars

SimInit ==
    ProgIdle /\ RiskIdle /\ FilterIdle /\ MachineIdle /\ DlIdle /\ DbIdle /\ BtIdle /\ FlIdle /\ LkIdle /\ OrdIdle /\ CkIdle
    /\ SimInit0

SpecSim == SimInit /\ [][SimNext]_vars

DlInit ==
    /\ ProgIdle
    /\ RiskIdle /\ FilterIdle /\ MachineIdle
    /\ SimIdle /\ DbIdle /\ BtIdle /\ FlIdle /\ LkIdle /\ OrdIdle /\ CkIdle
    /\ \/ \E store \in DlStores, req \in DlRanges :
              DlInit0("ensure", store, req, <<>>)
       \/ \E req \in DlFetches :
              DlInit0("call", Range(NoTime, NoTime), req, <<req>>)

SpecDl == DlInit /\ [][DlNext]_vars

DbInit ==
    /\ ProgIdle
    /\ RiskIdle /\ FilterIdle /\ MachineIdle
    /\ SimIdle /\ DlIdle /\ BtIdle /\ FlIdle /\ LkIdle /\ OrdIdle /\ CkIdle
    /\ DbInit0

SpecDb == DbInit /\ [][DbNext]_vars

BtInit ==
    /\ ProgIdle
    /\ RiskIdle /\ FilterIdle /\ MachineIdle
    /\ SimIdle /\ DlIdle /\ DbIdle /\ FlIdle /\ LkIdle /\ OrdIdle /\ CkIdle
    /\ \E total \in 0..MaxBtTrades, fast_mode \in BOOLEAN :
          BtInit0([total |-> total, fast_mode |-> fast_mode])

SpecBt == BtInit /\ [][BtNext]_vars

FlInit ==
    /\ ProgIdle
    /\ RiskIdle /\ FilterIdle /\ MachineIdle
    /\ SimIdle /\ DlIdle /\ DbIdle /\ BtIdle /\ LkIdle /\ OrdIdle /\ CkIdle
    /\ \E rows \in FlStores :
          \/ FlInit0("ensure", rows, <<>>)
          \/ FlInit0("call", rows, <<Range(0, 2 * Hour)>>)

SpecFl == FlInit /\ [][FlNext]_vars

CkInit ==
    /\ ProgIdle
    /\ RiskIdle /\ FilterIdle /\ MachineIdle
    /\ SimIdle /\ DlIdle /\ DbIdle /\ BtIdle /\ FlIdle /\ LkIdle /\ OrdIdle
    /\ \E build \in {"debug", "release"} :
       \E start_ts \in 0..WordMax : \E end_ts \in (start_ts + 1)..WordMax :
          CkInit0(build, start_ts, end_ts)

SpecCk == CkInit /\ [][CkNext]_vars

OrdInit ==
    /\ ProgIdle
    /\ RiskIdle /\ FilterIdle /\ MachineIdle
    /\ SimIdle /\ DlIdle /\ DbIdle /\ BtIdle /\ FlIdle /\ LkIdle /\ CkIdle
    /\ \E mode \in {"live", "paper"} : OrdInit0(mode)

SpecOrd == OrdInit /\ [][OrdNext]_vars

LkInit ==
    /\ ProgIdle
    /\ RiskIdle /\ FilterIdle /\ MachineIdle
    /\ SimIdle /\ DlIdle /\ DbIdle /\ BtIdle /\ FlIdle /\ OrdIdle /\ CkIdle
    /\ LkInit0

\* the runtime polls every task that is ready: a task that has begun goes
\* on to its next lock operation, and a lock that can be handed to the head
\* of its queue is; nothing makes a request or an execution begin
SpecLk ==
    /\ LkInit /\ [][LkNext]_vars
    /\ \A lock \in Locks : WF_vars(LkGrant(lock))
    /\ \A task \in LockTasks :
          WF_vars((lkPc[task] > 1 /\ LkRequest(task)) \/ LkRelease(task))

-----------------------------------------------------------------------------
(* Claims about the execution workers, checked under SpecWorker *)

RepliedIds == [k \in 1..Len(replyLog) |-> replyLog[k].id]

\* C1: every command other than Shutdown that the worker dequeues gets its
\* exchange call exactly once and exactly one reply (sent or attempted) before
\* the next command is dequeued; commands are dequeued in the order they were
\* enqueued; at most one exchange call is in flight.
C1_WorkerProtocol ==
    /\ IsPrefix(deqLog, enqLog)
    /\ callLog = FilterSeq(deqLog, Ids)
    /\ Cardinality(SeqToSet(callLog)) = Len(callLog)
    /\ IF wpc = "call"
       THEN callLog = Append(RepliedIds, wcur.id)
       ELSE callLog = RepliedIds

C1_Witness ==
    /\ Len(replyLog) >= 2
    /\ \E k \in 1..Len(replyLog) : apiOk[replyLog[k].id] = "fail"

\* C2 as stated: a wrapper returns Ok exactly when the exchange call succeeded
\* and Err with the error when it failed, for every command of both workers.
C2_Original ==
    \A i \in Ids :
        (cstate[i] = "returned" /\ apiOk[i] # "none") =>
            /\ apiOk[i] = "ok" => cresult[i] = "Ok"
            /\ apiOk[i] = "fail" => cresult[i] = "Err"

\* C2 amended: the same for every command except the futures SetMarginType,
\* whose handler replies MarginTypeSet on failure too, so that its wrapper
\* returns Ok whether or not the exchange call succeeded.
C2_WrapperResult ==
    /\ \A i \in Ids :
        (cstate[i] = "returned" /\ apiOk[i] # "none" /\ ccmd[i] # "SetMarginType") =>
            /\ apiOk[i] = "ok" => cresult[i] = "Ok"
            /\ apiOk[i] = "fail" => cresult[i] = "Err"
    /\ \A i \in Ids :
        (cstate[i] = "returned" /\ apiOk[i] # "none" /\ ccmd[i] = "SetMarginType") =>
            cresult[i] = "Ok"
    /\ \A k \in 1..Len(replyLog) :
        (apiOk[replyLog[k].id] = "fail" /\ ccmd[replyLog[k].id] # "SetMarginType") =>
            replyLog[k].resp = ErrVariant(ccmd[replyLog[k].id])

C2_Witness ==
    /\ \E i \in Ids : /\ cstate[i] = "returned" /\ apiOk[i] = "fail"
                      /\ ccmd[i] = "CancelOrder" /\ cresult[i] = "Err"
    /\ \E i \in Ids : /\ cstate[i] = "returned" /\ apiOk[i] = "ok"
                      /\ cresult[i] = "Ok"

\* C3: a command whose caller dropped the one-shot receiver after enqueueing it
\* still gets its exchange call; the reply that cannot be delivered is dropped
\* without effect on the caller or the worker, and a reply is lost only when
\* its own receiver was dropped, so later commands are served as usual.
C3_NoCancellation ==
    /\ \A i \in Ids :
        (rxDropped[i] /\ i \in SeqToSet(deqLog)) => i \in SeqToSet(callLog)
    /\ \A k \in 1..Len(replyLog) :
        LET r == replyLog[k] IN
        /\ apiOk[r.id] # "none"
        /\ r.delivered => oneshot[r.id] = r.resp
        /\ ~r.delivered => /\ rxDropped[r.id]
                           /\ cresult[r.id] = "none"
                           /\ cstate[r.id] = "cancelled"
    /\ wpc = "exited" =>
        \/ deqLog # <<>> /\ deqLog[Len(deqLog)] = 0
        \/ ~sendersOpen /\ cmdq = <<>>

C3_Witness ==
    \E j, k \in 1..Len(replyLog) :
        /\ j < k
        /\ ~replyLog[j].delivered
        /\ replyLog[k].delivered
        /\ cresult[replyLog[k].id] \in {"Ok", "Err"}

-----------------------------------------------------------------------------
(* Claims about live execution, checked under SpecExec *)

OrderCommands == {k \in 1..Len(exSent) : exSent[k].cmd \in {"MarketBuy", "MarketSell"}}

\* the quantity execute is about to order once the balances are known: the
\* requested one, or the balance clamp when the balance does not cover it
ClampedQty ==
    IF exSignal.side = "Buy"
    THEN IF InsufficientUsdt(exBal.usdt, exSignal.qty, est_price(exSignal))
         THEN (exBal.usdt * 995 * QtyStep) \div (10 * est_price(exSignal))
         ELSE exSignal.qty
    ELSE IF exBal.btc < exSignal.qty THEN exBal.btc ELSE exSignal.qty

\* C5: every MarketBuy/MarketSell handed to the worker carries a quantity that
\* is the order's (possibly balance-clamped) quantity truncated toward zero to
\* 5 decimal places and whose notional at the price hint is at least 5 USD; an
\* order whose notional is below 5 USD sends nothing but the balance query and
\* execute returns Ok(0).
C5_LiveOrderSizing ==
    /\ \A k \in OrderCommands :
        /\ exSent[k].qty % QtyStep = 0
        /\ exSent[k].qty <= ClampedQty
        /\ ClampedQty - exSent[k].qty < QtyStep
        /\ exSent[k].qty * exSent[k].hint * PriceUnit >= MinNotional * QtyPerBtc
        /\ exSent[k].cmd = (IF exSignal.side = "Buy" THEN "MarketBuy" ELSE "MarketSell")
    /\ Cardinality(OrderCommands) <= 1
    /\ ( /\ exPc \in {"order", "done"}
         /\ exSignal.side \in {"Buy", "Sell"}
         /\ exResult # "Err" \/ OrderCommands # {}
         /\ ClampedQty * est_price(exSignal) * PriceUnit < MinNotional * QtyPerBtc )
       => /\ exPc = "done"
          /\ exResult = "Ok0"
          /\ exSent = <<[cmd |-> "GetAccount", qty |-> 0, hint |-> 0]>>

C5_Witness ==
    /\ exPc = "order"
    /\ exSignal.side = "Buy"
    /\ InsufficientUsdt(exBal.usdt, exSignal.qty, est_price(exSignal))
    /\ \E k \in OrderCommands : exSent[k].qty < exSignal.qty

C5_WitnessSkip ==
    /\ exPc = "done"
    /\ exResult = "Ok0"
    /\ exSignal.side = "Sell"
    /\ exSignal.qty > 0
    /\ OrderCommands = {}

-----------------------------------------------------------------------------
(* Claims about the channel and the order of events, checked under         *)
(* SpecChannel                                                             *)

\* the events the loop received and the filter accepted, in order
AcceptedLog == FilterSeq(deliveredLog, (1..Len(deliveredLog)) \ SeqToSet(rejectedLog))

FirstN(n) == [k \in 1..n |-> k]

\* C6: the strategy is handed the events of the source in the order they were
\* sent, without the events the data filter rejected and with the accepted ones
\* in unchanged order, and at most one handler invocation is in progress at any
\* time: a handler is only called once the previous one has returned.
C6_EventOrdering ==
    /\ deliveredLog = FirstN(Len(deliveredLog))
    /\ handedLog = IF cpc \in {"swap", "dispatch"}
                   THEN SubSeq(AcceptedLog, 1, Len(AcceptedLog) - 1)
                   ELSE AcceptedLog
    /\ inHandler <= 1
    /\ inHandler = 1 <=> cpc = "handler"

C6_Witness ==
    /\ srcKind = "websocket"
    /\ Len(rejectedLog) >= 3
    /\ Len(handedLog) >= 20
    /\ \E j \in 1..Len(rejectedLog) : rejectedLog[j] < handedLog[Len(handedLog)]
    /\ {Event(handedLog[k]).kind : k \in 1..Len(handedLog)} = EventKinds

\* C7: the channel never holds more than 100 events; every event a send has
\* completed for is, exactly once and in order, either already received by the
\* loop or still in the channel; a send that finds the channel full queues
\* nothing and parks, and the parked producer queues its event only once the
\* loop has made room.
C7_Backpressure ==
    /\ [](/\ Len(chan) <= ChannelCapacity
          /\ deliveredLog \o chan = FirstN(srcNext - 1)
          /\ prodPc = "blocked" => srcNext <= srcBudget)
    /\ [][/\ (prodPc = "ready" /\ Len(chan) = ChannelCapacity) => srcNext' = srcNext
          /\ (prodPc = "ready" /\ prodPc' = "blocked")
               => (Len(chan) = ChannelCapacity /\ chan' = chan)
          /\ (prodPc = "blocked" /\ prodPc' = "ready")
               => (Len(chan) < ChannelCapacity /\ chan' = Append(chan, srcNext))
          /\ prodPc = "blocked" => srcNext' = srcNext \/ prodPc' = "ready"]_vars

C7_Witness ==
    /\ Len(chan) = ChannelCapacity
    /\ prodPc = "blocked"
    /\ deliveredLog # <<>>

-----------------------------------------------------------------------------
(* Claims about the coordinator loop and the dashboard, checked under      *)
(* SpecCoord                                                               *)

\* C4: an execution is spawned only while shared is_trading is true: no spawn
\* happens after a stop_trading write and before the next start_trading.
C4_TradeGating ==
    \A k \in 1..Len(spawnLog) : spawnLog[k].is_trading

\* C8: after the swap check the loop's strategy has the name read from shared
\* state, and the loop swaps at most once for each change of the name.
C8_HotSwap ==
    /\ cpc \in {"dispatch", "handler"} => StrategyName(strategy) = current_name
    /\ swapsSinceChange <= 1

-----------------------------------------------------------------------------
(* Claims about the strategies, checked under SpecStrat                    *)

C10_DrivesLifecycle ==
    lastCall.handler # "none" =>
        /\ lastCall.pre = "Booting" => sm.current_state = "Accumulating"
        /\ (lastCall.pre = "Accumulating" /\ lastCall.stable)
              => sm.current_state = "Trading"

\* the cooldown window of a strategy, in milliseconds of event time; a
\* strategy that keeps no last-signal timestamp has none
CooldownOf(kind) ==
    IF kind = "GridTrading" THEN GridCooldownMs ELSE 0

\* C11: two handler invocations of one strategy that each return at least
\* one opportunity are more than the strategy's cooldown window apart in
\* event time.
C11_SignalCooldown ==
    emitLog.gap # NoEmit => emitLog.gap > CooldownOf(strategy.kind)

-----------------------------------------------------------------------------
(* Claims about the risk manager, checked under SpecRisk                   *)

Eligible(opps) == {k \in 1..Len(opps) : opps[k].risk_score < 50}

\* C12: select_best_trade returns None exactly when every opportunity of its
\* input has risk_score >= 0.5 (the empty input included); otherwise it
\* returns an opportunity with risk_score < 0.5 whose score is the maximum
\* among those.
C12_SelectBest ==
    rkPc = "selected" =>
        /\ rkBest = 0 <=> \A k \in 1..Len(rkArg) : rkArg[k].risk_score >= 50
        /\ rkBest # 0 =>
              /\ rkBest \in Eligible(rkArg)
              /\ \A j \in Eligible(rkArg) : rkArg[j].score <= rkArg[rkBest].score

\* a selection among several opportunities of which some are too risky, and
\* a None answer for a non-empty list
C12_Witness ==
    /\ rkPc = "selected"
    /\ rkBest # 0
    /\ \E k \in 1..Len(rkArg) : rkArg[k].risk_score >= 50 /\ rkArg[k].score > 80
    /\ \E k \in 1..Len(rkArg) : k # rkBest /\ rkArg[k].risk_score < 50

\* C13: among several opportunities with risk_score < 0.5 that share the
\* maximum score, the one that appears first in the input is returned.
C13_TiesFirstSeen ==
    (rkPc = "selected" /\ rkBest # 0) =>
        \A j \in Eligible(rkArg) :
            rkArg[j].score = rkArg[rkBest].score => rkBest <= j

\* C14: analyze_opportunities reports total_risk 0.8 for more than five
\* candidates and 0.3 otherwise, drawdown_warning exactly when total_risk
\* exceeds 0.7, and returns the input list with only risk_score changed:
\* times 0.8 for a score above 0.8, then times 1.5 under drawdown_warning.
C14_Analyze ==
    rkPc = "analyzed" =>
        /\ rkReport.total_risk = (IF Len(rkInput) > 5 THEN 80 ELSE 30)
        /\ rkReport.drawdown_warning <=> rkReport.total_risk > 70
        /\ Len(rkProcessed) = Len(rkInput)
        /\ \A k \in 1..Len(rkInput) :
              LET in == rkInput[k]
                  out == rkProcessed[k]
                  f1 == IF in.score > 80 THEN 8 ELSE 10
                  f2 == IF rkReport.drawdown_warning THEN 15 ELSE 10
              IN  /\ out = [in EXCEPT !.risk_score = out.risk_score]
                  /\ 100 * out.risk_score = in.risk_score * f1 * f2

\* more than five candidates, some scored above 0.8 and some not
C14_Witness ==
    /\ rkPc = "analyzed"
    /\ rkReport.drawdown_warning
    /\ \E k \in 1..Len(rkInput) : rkInput[k].score > 80
    /\ \E k \in 1..Len(rkInput) : rkInput[k].score <= 80

-----------------------------------------------------------------------------
(* Claims about the data filter, checked under SpecFilter                  *)

Rejects(f) == f.duplicate_count + f.out_of_order_count + f.outlier_count

\* C16: total_received is at least the sum of the three reject counters;
\* each should_process call adds one to total_received and one to exactly
\* one reject counter when it returns false, to none when it returns true;
\* the quality score is in [0, 100], 100 with nothing received and 50
\* after the trade ids 100 then 100.
C16_FilterCounters ==
    /\ flt.total_received >= Rejects(flt)
    /\ fltCalls > 0 =>
          /\ flt.total_received = fltBefore.total_received + 1
          /\ flt.duplicate_count >= fltBefore.duplicate_count
          /\ flt.out_of_order_count >= fltBefore.out_of_order_count
          /\ flt.outlier_count >= fltBefore.outlier_count
          /\ Rejects(flt) = Rejects(fltBefore) + (IF fltOk THEN 0 ELSE 1)
    /\ LET q == get_quality_score(flt) IN
          /\ q[2] > 0 /\ 0 <= q[1] /\ q[1] <= q[2]
          /\ flt.total_received = 0 => 100 * q[1] = 100 * q[2]
          /\ ( /\ fltCalls = 2
               /\ fltBefore.last_trade_id = 100
               /\ fltEvent.kind = "Trade" /\ fltEvent.id = 100 )
                => 100 * q[1] = 50 * q[2]

\* the trade ids 100 then 100: the second one is rejected as a duplicate
C16_Witness ==
    /\ fltCalls = 2
    /\ fltBefore.last_trade_id = 100
    /\ fltEvent.kind = "Trade" /\ fltEvent.id = 100
    /\ ~fltOk
    /\ flt.duplicate_count = 1

\* C17: a should_process call that rejects its event leaves the reference
\* ids, the reference timestamp and the reference price unchanged.
C17_RejectKeepsReferences ==
    (fltCalls > 0 /\ ~fltOk) =>
        /\ flt.last_trade_id = fltBefore.last_trade_id
        /\ flt.last_agg_trade_id = fltBefore.last_agg_trade_id
        /\ flt.last_timestamp = fltBefore.last_timestamp
        /\ flt.last_price = fltBefore.last_price

\* C18 as stated: with last_trade_id = 0, the first Trade event given to
\* should_process is accepted, whatever its id and whatever AggrTrade and
\* order-book events came before.
C18_Original ==
    ( /\ fltEvent.kind = "Trade"
      /\ fltTrades = 1
      /\ fltBefore.last_trade_id = 0 )
        => fltOk

\* C18, amended: with last_trade_id = 0 a Trade event is never rejected as a
\* duplicate, whatever its id; it is accepted exactly when it passes the
\* out-of-order check against last_timestamp and the outlier check against
\* last_price, which AggrTrade events set as well, so always when neither
\* has been set.
C18_FirstTrade ==
    (fltCalls > 0 /\ fltEvent.kind = "Trade" /\ fltBefore.last_trade_id = 0) =>
        /\ flt.duplicate_count = fltBefore.duplicate_count
        /\ fltOk <=>
              /\ ~(fltEvent.time < fltBefore.last_timestamp
                      /\ fltBefore.last_timestamp # 0)
              /\ ~(fltBefore.last_price # NoPrice
                      /\ IsOutlier(fltEvent.price, fltBefore.last_price))
        /\ (fltBefore.last_timestamp = 0 /\ fltBefore.last_price = NoPrice)
              => fltOk

\* a first Trade event accepted after an AggrTrade event
C18_Witness ==
    /\ fltEvent.kind = "Trade"
    /\ fltTrades = 1
    /\ fltBefore.last_trade_id = 0
    /\ fltBefore.last_agg_trade_id # 0
    /\ fltOk

-----------------------------------------------------------------------------
(* Claims about the state machine, checked under SpecMachine               *)

\* C19: transition_to(s) with s the current state changes nothing;
\* otherwise it adds one to exactly observed[current][s], makes s the
\* current state and resets the last-transition instant. So observed[i][j]
\* is the number of transitions from i to j performed.
C19_TransitionTo ==
    /\ mCalls > 0 =>
          IF mLast.arg = mLast.before.current_state
          THEN msm = mLast.before
          ELSE /\ msm.current_state = mLast.arg
               /\ msm.last_transition_time = mLast.time
               /\ \A p \in States \X States :
                     msm.transition_matrix[p] =
                        mLast.before.transition_matrix[p]
                          + (IF p = <<mLast.before.current_state, mLast.arg>>
                             THEN 1 ELSE 0)
    /\ \A p \in States \X States : msm.transition_matrix[p] = mPerformed[p]

\* a self-loop call after the clock has moved, following a real transition
C19_Witness ==
    /\ mCalls > 1
    /\ mLast.arg = mLast.before.current_state
    /\ mLast.time > mLast.before.last_transition_time
    /\ \E p \in States \X States : msm.transition_matrix[p] > 0

\* C20: is_stable() is true in every state other than Accumulating, and in
\* Accumulating exactly when at least 5 seconds have elapsed since the last
\* transition.
C20_IsStable ==
    mQuery.asked =>
        (mQuery.answer <=> (mQuery.state # "Accumulating" \/ mQuery.elapsed >= 5))

-----------------------------------------------------------------------------
(* Claims about the simulation executor, checked under SpecSim             *)

SimLast == simLog[Len(simLog)]

SimHint(sig) == IF sig.price = NoPrice THEN 0 ELSE sig.price

\* what a Buy costs, fee included, in money units
SimCost(sig) ==
    sig.quantity * SimHint(sig) * MoneyPerLotUsd
      + (sig.quantity * SimHint(sig) * MoneyPerLotUsd) \div FeeDivisor

\* the last signal is one of the four rejected cases
SimRejected ==
    /\ simLog # <<>>
    /\ \/ SimLast.side = "Buy" /\ SimHint(SimLast) = 0
       \/ SimLast.side = "Buy" /\ SimCost(SimLast) > simBefore.balances.USDT
       \/ SimLast.side = "Sell" /\ SimHint(SimLast) = 0
       \/ SimLast.side = "Sell" /\ SimLast.quantity > simBefore.balances.BTC

\* C21: a Buy with a missing or zero price hint, a Buy that costs more than
\* the USDT balance, a Sell with a missing or zero price hint and a Sell of
\* more BTC than held return PnL 0 and leave balances and positions as
\* they were.
C21_SimRejections ==
    SimRejected =>
        /\ simPnl = FracOf(0)
        /\ sim_balances = simBefore.balances
        /\ sim_positions = simBefore.positions

\* the value of the open positions at their entry prices
PositionsValue ==
    IF sim_positions = <<>> THEN FracOf(0)
    ELSE FracTimes(sim_positions[1].entry_price, sim_positions[1].amount)

Buy01At1000 == [side |-> "Buy", price |-> 1000, quantity |-> 1]
Sell01At1100 == [side |-> "Sell", price |-> 1100, quantity |-> 1]

\* USD amounts given in tenths and in hundredths, in money units
Tenths(k) == k * (MoneyPerUsd \div 10)
Hundredths(k) == k * (MoneyPerUsd \div 100)

\* within 0.1 USD
Near(x, y) == Abs(x - y) <= Tenths(1)

\* C23 as stated: Buy 0.1 BTC at 1000 leaves USDT = 9889.9 and BTC = 0.1;
\* the following Sell of 0.1 at 1100 leaves USDT about 10888.8 and returns
\* a realized PnL of about 98.8.
C23_Original ==
    /\ simLog = <<Buy01At1000>> =>
          /\ sim_balances.USDT = Tenths(98899)
          /\ sim_balances.BTC = 1
    /\ simLog = <<Buy01At1000, Sell01At1100>> =>
          /\ Near(sim_balances.USDT, Tenths(108888))
          /\ simPnl.d = 1 /\ Near(simPnl.n, Tenths(988))

\* C23, amended: Buy 0.1 BTC at 1000 leaves USDT = 9899.9 and BTC = 0.1;
\* the following Sell of 0.1 at 1100 leaves USDT = 10009.79, BTC = 0 and no
\* position, and returns a realized PnL of 9.79.
C23_RoundTrip ==
    /\ simLog = <<Buy01At1000>> =>
          /\ sim_balances.USDT = Tenths(98999)
          /\ sim_balances.BTC = 1
    /\ simLog = <<Buy01At1000, Sell01At1100>> =>
          /\ sim_balances.USDT = Hundredths(1000979)
          /\ sim_balances.BTC = 0
          /\ sim_positions = <<>>
          /\ simPnl = FracOf(Hundredths(979))

C23_Witness == simLog = <<Buy01At1000, Sell01At1100>>

-----------------------------------------------------------------------------
(* Claims on the historical downloader (SpecDl)                            *)

InFlight == {i \in DOMAIN dlTask : dlTask[i].pc = "calling"}

\* C24: at most five exchange requests are in flight at once, and each
\* request is sent by a future that holds a permit of the semaphore and has
\* slept its 200 ms after taking it.
C24_Concurrency ==
    /\ Cardinality(InFlight) <= MAX_CONCURRENT_REQUESTS
    /\ dlPermits = MAX_CONCURRENT_REQUESTS
                    - Cardinality({i \in DOMAIN dlTask : dlTask[i].permit})
    /\ \A i \in DOMAIN dlTask :
          /\ dlTask[i].pc # "waiting"
          /\ dlTask[i].pc = "calling" => dlTask[i].permit /\ dlTask[i].slept
          /\ dlTask[i].reply # "none" => dlTask[i].slept

\* five requests in flight while a sixth chunk waits its turn
C24_Witness ==
    /\ Cardinality(InFlight) = MAX_CONCURRENT_REQUESTS
    /\ \E i \in DOMAIN dlTask : dlTask[i].pc = "queued"

CeilDiv(a, b) == (a + b - 1) \div b

DlCall == dlCalls[Len(dlCalls)]

\* C25: the chunks of a call [start, end) are contiguous windows of at most
\* MAX_WINDOW_MS that cover the range exactly, all but the last of full
\* length, ceil((end - start) / MAX_WINDOW_MS) of them; none when
\* start >= end.
C25_Chunking ==
    dlCalls # <<>> =>
        LET s == DlCall.start
            e == DlCall.end
            n == Len(dlChunks)
        IN  IF s >= e THEN n = 0
            ELSE /\ n = CeilDiv(e - s, MAX_WINDOW_MS)
                 /\ dlChunks[1].start = s
                 /\ dlChunks[n].end = e
                 /\ \A k \in 1..n :
                       /\ dlChunks[k].start < dlChunks[k].end
                       /\ dlChunks[k].end - dlChunks[k].start <= MAX_WINDOW_MS
                       /\ k < n => /\ dlChunks[k].end - dlChunks[k].start = MAX_WINDOW_MS
                                   /\ dlChunks[k + 1].start = dlChunks[k].end

\* a call cut into two full windows and a short last one
C25_Witness ==
    /\ dlCalls # <<>>
    /\ Len(dlChunks) = 3
    /\ dlChunks[3].end - dlChunks[3].start < MAX_WINDOW_MS

FetchReturned ==
    /\ dlPc \in {"call", "returned"}
    /\ dlCalls # <<>>

\* C26: when fetch_and_save_range_public returns, every chunk was requested
\* whatever happened to the others; a chunk that came back with events went
\* to the bulk insert, a chunk that came back empty or failed did not.
C26_ErrorIsolation ==
    FetchReturned =>
        \A i \in DOMAIN dlTask :
            /\ dlTask[i].pc = "done"
            /\ dlTask[i].reply \in Replies
            /\ dlTask[i].reply = "events" <=> dlTask[i].save \in SaveResults
            /\ ~dlTask[i].permit

\* a call that returned after one chunk failed at the exchange, one insert
\* failed, one chunk was empty and one was saved
C26_Witness ==
    /\ FetchReturned
    /\ \E i, j, k, l \in DOMAIN dlTask :
          /\ dlTask[i].reply = "api_error"
          /\ dlTask[j].save = "error"
          /\ dlTask[k].reply = "empty"
          /\ dlTask[l].save = "ok"

\* what is missing of [start, end) in a store with bounds lo, hi
MissingRanges(lo, hi, s, e) ==
    IF lo = NoTime THEN <<Range(s, e)>>
    ELSE IF lo <= s /\ hi >= e THEN <<>>
    ELSE (IF lo > s THEN <<Range(s, lo)>> ELSE <<>>)
         \o (IF hi < e THEN <<Range(hi, e)>> ELSE <<>>)

\* C27: ensure_data_range fetches only the missing gaps: [start, db_min)
\* when the store starts later than start, [db_max, end) when it ends
\* earlier than end, the whole range once when the store is empty.
C27_OnlyGaps ==
    (dlPc = "returned" /\ dlReq \in DlRanges) =>
        dlCalls = MissingRanges(dlStore.start, dlStore.end, dlReq.start, dlReq.end)

-----------------------------------------------------------------------------
(* Claims on save_aggr_trades_bulk (SpecDb)                                *)

SameBatchAgain ==
    /\ dbPrev # NoSave
    /\ dbPrev.result = "Ok"
    /\ dbLast.events = dbPrev.events
    /\ dbLast.market_type = dbPrev.market_type

\* C28: a second call with the batch of a call that succeeded returns
\* success and leaves the stored rows as they were; a violation of the
\* unique index is reported as success and stores nothing; any other store
\* error is returned as an error.
C28_BulkIdempotent ==
    dbLast # NoSave =>
        /\ (dbLast.events # <<>> /\ dbLast.fault # "none") <=> dbLast.result = "Err"
        /\ dbLast.result = "Err" => dbRows = dbLast.before
        /\ (SameBatchAgain /\ dbLast.fault = "none") =>
              /\ dbLast.result = "Ok"
              /\ dbRows = dbLast.before
              /\ Cardinality(dbRows) = Cardinality(dbLast.before)

\* a batch of two trades was stored and then saved again
C28_Witness ==
    /\ SameBatchAgain
    /\ dbLast.fault = "none"
    /\ dbPrev.fault = "none"
    /\ Len(dbLast.events) = 2
    /\ Keys(dbLast.events, dbLast.market_type) \subseteq dbRows
    /\ dbPrev.before = {}

-----------------------------------------------------------------------------
(* Claims on the worker loop (SpecWorker)                                  *)

\* C29: the worker thread leaves its command loop only by dequeuing a
\* Shutdown command or by finding its channel closed and empty; the end of
\* an exchange call, failed or not, with the reply delivered or not, takes
\* it back to recv.
C29_LoopExit ==
    [][/\ (wpc # "exited" /\ wpc' = "exited") =>
            /\ wpc = "recv"
            /\ \/ cmdq # <<>> /\ Head(cmdq).cmd = "Shutdown" /\ wexit' = "shutdown"
               \/ cmdq = <<>> /\ ~sendersOpen /\ wexit' = "closed"
       /\ wpc = "call" => wpc' \in {"call", "recv"}]_vars

\* the worker has left its loop on Shutdown, after a failed exchange call
\* whose reply nobody was waiting for
C29_Witness ==
    /\ wpc = "exited"
    /\ wexit = "shutdown"
    /\ \E k \in DOMAIN replyLog :
          /\ ~replyLog[k].delivered
          /\ apiOk[replyLog[k].id] = "fail"

-----------------------------------------------------------------------------
(* Claims on the portfolio snapshots (SpecCoord)                           *)

\* C30: consecutive snapshots of portfolio_history have non-decreasing
\* timestamps at least 5 seconds apart, and the history never holds more
\* than 500 snapshots.
C30_SnapshotSpacing ==
    /\ Len(portfolio_history) <= MaxPortfolioHistory
    /\ \A k \in 1..(Len(portfolio_history) - 1) :
          /\ portfolio_history[k] <= portfolio_history[k + 1]
          /\ portfolio_history[k + 1] - portfolio_history[k] >= SnapshotSeconds

-----------------------------------------------------------------------------
(* Claims on execute_isolated_backtest (SpecBt)                            *)

RECURSIVE RunAlone(_, _)
\* the run r after its set-up and k steps with no other run in the program
RunAlone(r, k) ==
    IF k = 0 THEN bt_start(BtRequested, r[2])
    ELSE bt_step(RunAlone(r, k - 1), r[1], btReq.total, btReq.fast_mode)

StepsTaken(run) == IF run.pc = "done" THEN run.idx + 1 ELSE run.idx

Started(run) == run.pc \in {"loop", "done", "none"}

Running(run) == SelectSeq(run.events, LAMBDA e : e.status = "running")

\* C32: a run over a non-empty trade list emits running events with
\* non-decreasing percentages, at most 9 of them, and then exactly one
\* completed event with progress 100, which is its last event.
C32_Progress ==
    \A r \in BtRuns :
        LET run == btRun[r]
            n == Len(run.events)
        IN  /\ Len(Running(run)) <= ProgressParts - 1
            /\ \A k \in 1..(n - 1) :
                  /\ run.events[k].status = "running"
                  /\ run.events[k].progress_pct <= run.events[k + 1].progress_pct
            /\ (run.pc = "done") <=>
                  (n > 0 /\ run.events[n] = ProgressEvent("completed", 100))

-----------------------------------------------------------------------------
(* Claims on the coordinator's accounting (SpecCoord)                      *)

-----------------------------------------------------------------------------
(* Claims on the downloader and the table together (SpecFl)                *)

\* C34: when the download has completed, every exchange call having
\* succeeded, every trade the exchange returned is in the store.
C34_Complete ==
    flPc = "returned" => \A id \in flReturned : <<"spot", id>> \in flStore

-----------------------------------------------------------------------------
(* Claims on the locks (SpecLk)                                            *)

Holders(lock) == {h.task : h \in lkHeld[lock]}

\* the tasks a queued task waits for: those ahead of it in the queue and,
\* unless its request is compatible with them, those holding the lock
WaitsFor(task) ==
    UNION {LET q == lkQueue[l]
               at == {k \in DOMAIN q : q[k].task = task}
           IN  IF at = {} THEN {}
               ELSE LET k == CHOOSE x \in at : TRUE IN
                    {q[j].task : j \in 1..(k - 1)}
                    \cup (IF Compatible(l, q[k].mode) THEN {} ELSE Holders(l))
           : l \in Locks}

\* no set of tasks waits in a circle: every set of queued tasks has a
\* member whose wait does not depend on the set, and a task that waits for
\* nobody can be given its lock at once
NoWaitCycle ==
    /\ \A S \in SUBSET LockTasks :
          S # {} => \E t \in S : ~Queued(t) \/ WaitsFor(t) \cap S = {}
    /\ \A l \in Locks :
          (lkQueue[l] # <<>> /\ WaitsFor(Head(lkQueue[l]).task) = {}) =>
              ENABLED LkGrant(l)

\* C35: under every interleaving of the coordinator, a spawned execution,
\* get_status and a dashboard writer no set of tasks ever waits in a circle,
\* and every task that waits for the shared lock or a ledger mutex gets it.
C35_DeadlockFree ==
    /\ []NoWaitCycle
    /\ \A task \in LockTasks : Queued(task) ~> ~Queued(task)

\* the coordinator holds the shared write lock and waits for the balances
\* mutex, which a running execute holds
C35_Witness ==
    /\ [task |-> "coordinator", mode |-> "write"] \in lkHeld["shared"]
    /\ lkQueue["balances"] # <<>>
    /\ Head(lkQueue["balances"]).task = "coordinator"
    /\ Holders("balances") = {"execute"}

-----------------------------------------------------------------------------
(* Claims on the spawned executions (SpecOrd)                              *)

\* C36: the orders of the selected signals are applied to the ledger
\* (paper) or enqueued to the worker (live) in the order in which the
\* coordinator selected them.
C36_SubmissionOrder ==
    \A j, k \in DOMAIN ordApplied : j < k => ordApplied[j] < ordApplied[k]

-----------------------------------------------------------------------------
(* Claims on the worker under fair scheduling (SpecWorkerLive)             *)

\* the command was enqueued behind a Shutdown
BehindShutdown(i) ==
    \E j, k \in DOMAIN enqLog : j < k /\ enqLog[j] = 0 /\ enqLog[k] = i

\* the wrapper's send found the worker gone
SentAfterExit(i) == ccmd[i] # "none" /\ i \notin SeqToSet(enqLog)

\* C37: every wrapper call that waits for its reply returns (or is dropped
\* by its caller); a command enqueued behind a Shutdown or sent after the
\* worker exited is never executed, and its caller gets 'Response channel
\* error' or 'Failed to send command'.
C37_NoHang ==
    /\ \A i \in Ids : (cstate[i] = "waiting") ~> (cstate[i] # "waiting")
    /\ [](\A i \in Ids :
            (BehindShutdown(i) \/ SentAfterExit(i)) =>
               /\ i \notin SeqToSet(callLog)
               /\ cstate[i] = "returned" =>
                     cresult[i] \in {"ErrChannel", "ErrSend"})

\* one caller got 'Response channel error' for a command behind a
\* Shutdown, another 'Failed to send command' after the worker exited
C37_Witness ==
    /\ wexit = "shutdown"
    /\ \E i, j \in Ids :
          /\ BehindShutdown(i) /\ cstate[i] = "returned"
          /\ cresult[i] = "ErrChannel"
          /\ SentAfterExit(j) /\ cresult[j] = "ErrSend"

-----------------------------------------------------------------------------
(* Claims on the worker's responses (SpecWorker)                           *)

\* the two variants the wrapper of a command accepts
Expected(k, cmd) ==
    {IF k = "spot" THEN SpotOkVariant(cmd) ELSE FuturesOkVariant(cmd),
     ErrVariant(cmd)}

\* C38: every response the worker has sent is one of the two variants the
\* wrapper of its command accepts, and no wrapper call has returned
\* 'Unexpected response'.
C38_VariantsMatch ==
    /\ \A n \in DOMAIN replyLog :
          replyLog[n].resp \in Expected(wkind, ccmd[replyLog[n].id])
    /\ \A i \in Ids : cresult[i] # "ErrUnexpected"

\* two calls have returned, one with the failure variant of its command and
\* one with the success variant
C38_Witness ==
    \E i, j \in Ids :
        /\ cstate[i] = "returned" /\ cresult[i] = "Err"
        /\ cstate[j] = "returned" /\ cresult[j] = "Ok"
        /\ Len(replyLog) = 2

-----------------------------------------------------------------------------
(* Claims on the live state machine (SpecCoord)                            *)

\* SystemState::to_index
to_index(state) ==
    CASE state = "Booting" -> 0
      [] state = "Accumulating" -> 1
      [] state = "Analyzing" -> 2
      [] state = "Trading" -> 3
      [] OTHER -> 4

LivePairs == {<<"Booting", "Accumulating">>, <<"Accumulating", "Trading">>}

-----------------------------------------------------------------------------
(* Claims on the chunk loop (SpecCk)                                       *)

\* C40: for every start_ts < end_ts the chunk loop never overflows: it
\* does not panic, every chunk ends after it starts, it makes no more
\* passes than the range has windows, and it ends with chunk_start equal
\* to end_ts.
C40_ChunksTerminate ==
    /\ ckPc # "panic"
    /\ \A n \in DOMAIN ckChunks : ckChunks[n][1] < ckChunks[n][2]
    /\ Len(ckChunks) <= CeilDiv(ckEnd - ckStart, Window)
    /\ ckPc = "done" => ckChunkStart = ckEnd

====
